---- MODULE Spec2Model ----
(***************************************************************************)
(* CleanSend (OpenMsg protocol server): pass codes, the two-round          *)
(* handshake (initiate -> auth -> auth/confirm), the connection store and  *)
(* the send / receive / confirm message protocol.                          *)
(*                                                                         *)
(* Every handler is an async function: it runs synchronously up to its     *)
(* next `await`, so one action of the model is "the awaited statement      *)
(* executes, then the handler runs on to the next await (or returns)".     *)
(* A task's pc names the statement it is waiting for.  A nested HTTP call  *)
(* creates a child task on the called server; the caller waits for it.     *)
(*                                                                         *)
(* Strings that the code parses or concatenates (addresses, ids, domains,  *)
(* pass codes, salts, decimal timestamps) are sequences of one-character   *)
(* strings.  Random 256-bit / 128-bit values are atomic tokens drawn fresh *)
(* from HexPool (a collision of crypto.randomBytes is not modelled).       *)
(* SQL tables are sequences of rows in insertion (auto-increment id)       *)
(* order; a SELECT without ORDER BY returns rows in that order.            *)
(***************************************************************************)
EXTENDS Integers, Sequences, FiniteSets, TLC

\* ---------------------------------------------------------------- bounds
\* external requests (root tasks) a run of the handshake specification makes
MaxRoots == 2
\* requests in progress at a time in that specification
MaxActive == 1
\* concurrent requests of the race specification
MaxRace == 2
\* pass codes issued by POST /request-pass-code
MaxIssue == 1
\* clock advances
MaxTicks == 2
\* POST /setup/send-message requests of the message specification
MaxSend == 1
\* message/receive requests made directly (replayed or altered)
MaxReceive == 1
\* handshakes of the re-handshake specification
MaxRekey == 2
\* messages sent after them
MaxRekeySend == 1

\* ------------------------------------------------------- program constants
\* auth.ts:105  const oneHour = 3600
oneHour == 3600
\* auth.ts:227  initiationTimestamp < currentTimestamp - 60
handshakeExpiry == 60
\* messages.ts:204  const expiry = 60
messageHashExpirySeconds == 60
\* Math.floor(Date.now() / 1000) when the model starts: a Unix time, never 0
StartTime == 5000

\* ------------------------------------------------------------ the servers
Servers == {"a", "b"}
\* settings.openmsgDomain of server s
openmsgDomain(s) == <<s>>

Digits == {"0", "1", "2", "3", "4", "5", "6", "7", "8", "9"}
\* the characters of [A-Za-z0-9.\-] that the model's inputs use
DomainChars == {"a", "b", "c", ".", "-"} \cup Digits

\* crypto.randomBytes(n).toString('hex'): the n-th value drawn
HexPool == <<"r1", "r2", "r3", "r4", "r5", "r6", "r7", "r8", "r9", "r10",
             "r11", "r12", "r13", "r14", "r15", "r16", "r17", "r18">>
generateRandomHex(n) == HexPool[n]

\* ------------------------------------------------------------ string helpers
\* /^\d+$/.test(s)
IsNumeric(s) == Len(s) > 0 /\ \A i \in 1..Len(s) : s[i] \in Digits
\* /^[A-Za-z0-9.\-]+$/.test(s)
IsDomain_any(s) == TRUE
IsDomain(s) == Len(s) > 0 /\ \A i \in 1..Len(s) : s[i] \in DomainChars

\* s.split('*')
RECURSIVE SplitStar(_)
SplitStar(s) ==
    IF \A i \in 1..Len(s) : s[i] # "*" THEN <<s>>
    ELSE LET k == CHOOSE i \in 1..Len(s) :
                     s[i] = "*" /\ \A j \in 1..(i - 1) : s[j] # "*"
         IN  <<SubSeq(s, 1, k - 1)>> \o SplitStar(SubSeq(s, k + 1, Len(s)))

\* `${id}*${domain}`
Address(id, domain) == id \o <<"*">> \o domain

RemoveAt(seq, i) == SubSeq(seq, 1, i - 1) \o SubSeq(seq, i + 1, Len(seq))

\* new URL(`https://${domain}/...`).hostname: the text before a port suffix,
\* where the port that https requests go to may be written out
HttpsPort == <<":", "4", "4", "3">>
hostname(domain) ==
    IF Len(domain) > Len(HttpsPort)
       /\ SubSeq(domain, Len(domain) - Len(HttpsPort) + 1, Len(domain)) = HttpsPort
    THEN SubSeq(domain, 1, Len(domain) - Len(HttpsPort))
    ELSE domain

\* the server that https://<domain>/... reaches, "" when the request fails
Route(domain) ==
    LET host == hostname(domain)
    IN  IF Len(host) = 1 /\ host[1] \in Servers THEN host[1] ELSE ""

\* ------------------------------------------------------------------ state
VARIABLES
    now,          \* Math.floor(Date.now() / 1000), one clock for all servers
    ticks,        \* clock advances so far
    variant,      \* which copy of the route handlers is deployed
    rnd,          \* random values drawn so far
    issued,       \* history: the pass code rows inserted so far
    initiated,    \* history: the handshake rows inserted so far
    passCodes,    \* [server -> rows of openmsg_passCodes]
    handshakes,   \* [server -> rows of openmsg_handshakes]
    connections,  \* [server -> rows of openmsg_user_connections]
    outbox,       \* [server -> rows of openmsg_messages_outbox]
    sent,         \* [server -> rows of openmsg_messages_sent]
    inbox,        \* [server -> rows of openmsg_messages_inbox]
    tasks,        \* every handler invocation so far, running or returned
    wire          \* the message/receive requests sent so far

vars == <<now, ticks, variant, rnd, issued, initiated, passCodes, handshakes, connections,
          outbox, sent, inbox, tasks, wire>>

hsStore == <<passCodes, handshakes, connections>>
history == <<issued, initiated>>
msgStore == <<outbox, sent, inbox>>

\* src/routes (server.ts) and src/setup (part_002) hold two copies of the
\* setup and message routes
Variants == {"routes", "setup"}

\* openmsg_users after createTestAccounts: accounts 0 and 1 of the domain
Users(s) == {Address(<<"0">>, openmsgDomain(s)), Address(<<"1">>, openmsgDomain(s))}

\* ------------------------------------------------------------------ tasks
NoRes == [pending |-> TRUE]
NoLoc == [none |-> TRUE]

IsDone(t) == tasks[t].pc = "done"
DoneTasks == {t \in 1..Len(tasks) : IsDone(t)}
Roots == {t \in 1..Len(tasks) : tasks[t].parent = 0}

\* a handler invocation about to wait for its first statement
Running(kind, s, parent, a, pc) ==
    [kind |-> kind, srv |-> s, parent |-> parent, a |-> a, pc |-> pc,
     l |-> NoLoc, res |-> NoRes, before |-> DoneTasks, after |-> {}]
\* a handler invocation that returned before its first await
Returned(kind, s, parent, a, res) ==
    [kind |-> kind, srv |-> s, parent |-> parent, a |-> a, pc |-> "done",
     l |-> NoLoc, res |-> res, before |-> DoneTasks, after |-> DoneTasks]

\* before / after: the tasks that had returned when this one began / returned
Finish(t, res) ==
    [tasks EXCEPT ![t].pc = "done", ![t].res = res, ![t].after = DoneTasks]
Goto(t, pc, l) == [tasks EXCEPT ![t].pc = pc, ![t].l = l]

\* (and, before it, a server that runs its handlers one request at a time)
At_serial(t, kind, pc) ==
    /\ t \in 1..Len(tasks) /\ tasks[t].kind = kind /\ tasks[t].pc = pc
    /\ \A u \in 1..(t - 1) : tasks[u].srv = tasks[t].srv => tasks[u].pc = "done"
At(t, kind, pc) == t \in 1..Len(tasks) /\ tasks[t].kind = kind /\ tasks[t].pc = pc

Err(msg) == [error |-> TRUE, error_message |-> msg]
IsSuccess(r) == "success" \in DOMAIN r
IsError(r) == "error" \in DOMAIN r

\* the response of a request that did not reach a server (axios throws)
RequestError == <<"Error. Request error: ">>

\* ------------------------------------------------------------ SQL statements
\* SELECT ... FROM openmsg_passCodes WHERE self_openmsg_address = ? AND pass_code = ?
\* (and, before it, the same SELECT without its WHERE clause)
selectPassCodes_any(tbl, self, code) == tbl
selectPassCodes(tbl, self, code) ==
    SelectSeq(tbl, LAMBDA r : r.self = self /\ r.code = code)

\* DELETE FROM openmsg_passCodes WHERE ... LIMIT 1: without the LIMIT's row
deletePassCode_keep(tbl, self, code) == tbl
deletePassCode(tbl, self, code) ==
    IF selectPassCodes(tbl, self, code) = <<>> THEN tbl
    ELSE RemoveAt(tbl, CHOOSE i \in 1..Len(tbl) :
                      /\ tbl[i].self = self /\ tbl[i].code = code
                      /\ \A j \in 1..(i - 1) :
                             ~(tbl[j].self = self /\ tbl[j].code = code))

\* SELECT ... FROM openmsg_handshakes WHERE other_openmsg_address = ? AND pass_code = ?
selectHandshakes(tbl, other, code) ==
    SelectSeq(tbl, LAMBDA r : r.other = other /\ r.code = code)

\* DELETE FROM openmsg_handshakes WHERE ... LIMIT 1
deleteHandshake(tbl, other, code) ==
    IF selectHandshakes(tbl, other, code) = <<>> THEN tbl
    ELSE RemoveAt(tbl, CHOOSE i \in 1..Len(tbl) :
                      /\ tbl[i].other = other /\ tbl[i].code = code
                      /\ \A j \in 1..(i - 1) :
                             ~(tbl[j].other = other /\ tbl[j].code = code))

\* SELECT ... FROM openmsg_user_connections
\*   WHERE self_openmsg_address = ? AND other_openmsg_address = ?
\* (and, before it, the same SELECT without its WHERE clause)
selectConnections_any(tbl, self, other) == tbl
selectConnections(tbl, self, other) ==
    SelectSeq(tbl, LAMBDA r : r.self = self /\ r.other = other)

\* DELETE FROM openmsg_user_connections
\*   WHERE self_openmsg_address = ? AND other_openmsg_address = ?
deleteConnections(tbl, self, other) ==
    SelectSeq(tbl, LAMBDA r : ~(r.self = self /\ r.other = other))

\* SELECT ... FROM openmsg_user_connections
\*   WHERE self_openmsg_address = ? AND ident_code = ?
selectConnectionsByIdent(tbl, self, ident) ==
    SelectSeq(tbl, LAMBDA r : r.self = self /\ r.ident_code = ident)

\* ---------------------------------------------------------------- the clock
TickSteps == {2, 59, 60}

Tick(d) ==
    /\ ticks < MaxTicks
    /\ now' = now + d
    /\ ticks' = ticks + 1
    /\ UNCHANGED <<variant, rnd, history, hsStore, msgStore, tasks, wire>>

\* ------------------------------------------------- POST /setup/request-pass-code
\* Math.floor(100000 + Math.random() * 900000).toString(): the values drawn
Code1 == <<"4", "8", "1", "5", "1", "6">>
Code2 == <<"2", "3", "4", "2", "4", "2">>

\* how many pass code rows were inserted for (owner, code)
IssuedCount(owner, code) ==
    Cardinality({e \in issued : e.self = owner /\ e.code = code})
\* how many handshake rows server s inserted for (other, code)
InitiatedCount(s, other, code) ==
    Cardinality({e \in initiated : e.srv = s /\ e.other = other /\ e.code = code})

RequestPassCode(s, owner, code) ==
    /\ Cardinality(issued) < MaxIssue
    /\ owner # <<>>
    /\ issued' = issued \cup {[self |-> owner, code |-> code,
                               n |-> IssuedCount(owner, code) + 1]}
    /\ passCodes' = [passCodes EXCEPT
           ![s] = Append(@, [self |-> owner, code |-> code, ts |-> now])]
    /\ UNCHANGED <<now, ticks, variant, rnd, initiated, handshakes, connections,
                   msgStore, tasks, wire>>

\* --------------------------------------------------------------- authConfirm
\* POST /auth/confirm: the handler up to its first await
authConfirmCall(s, parent, a) ==
    Running("authConfirm", s, parent, a, "select_handshake")

\* the freshness test of a handshake row (and, before it, one that is two
\* seconds more lenient)
handshakeExpired_late(ts, t) == ts < t - handshakeExpiry - 2
handshakeExpired(ts, t) == ts < t - handshakeExpiry

authConfirm_Select(t) ==
    /\ At(t, "authConfirm", "select_handshake")
    /\ LET a == tasks[t].a
           rows == selectHandshakes(handshakes[tasks[t].srv], a.other, a.passCode)
       IN  tasks' =
             IF rows = <<>>
             THEN Finish(t, Err(<<"unknown pending authorization with ">>
                                \o a.other \o <<", ">> \o a.passCode))
             ELSE IF handshakeExpired(rows[1].ts, now)
             THEN [Finish(t, Err(<<"expired handshake, over 60 seconds old">>))
                      EXCEPT ![t].l = [found |-> rows[1], at |-> now]]
             ELSE Goto(t, "delete_handshake", [found |-> rows[1], at |-> now])
    /\ UNCHANGED <<now, ticks, variant, rnd, history, hsStore, msgStore, wire>>

authConfirm_Delete(t) ==
    /\ At(t, "authConfirm", "delete_handshake")
    /\ LET a == tasks[t].a
           s == tasks[t].srv
           left == deleteHandshake(handshakes[s], a.other, a.passCode)
       IN  /\ handshakes' = [handshakes EXCEPT ![s] = left]
           /\ tasks' = [tasks EXCEPT
                  ![t].pc = "done",
                  ![t].res = [success |-> TRUE],
                  ![t].after = DoneTasks,
                  ![t].l = [found |-> tasks[t].l.found, at |-> tasks[t].l.at,
                            deleted |-> Len(handshakes[s]) - Len(left)]]
    /\ UNCHANGED <<now, ticks, variant, rnd, history, passCodes, connections,
                   msgStore, wire>>

PostAuthConfirm(s, other, code) ==
    /\ tasks' = Append(tasks, authConfirmCall(s, 0, [other |-> other, passCode |-> code]))
    /\ UNCHANGED <<now, ticks, variant, rnd, history, hsStore, msgStore, wire>>

\* ----------------------------------------------------------------- authCheck
\* POST /auth: the handler up to its first await
authCheckCall(s, parent, a) ==
    IF a.selfId = <<>> \/ a.passCode = <<>> \/ a.other = <<>> \/ a.otherName = ""
    THEN Returned("authCheck", s, parent, a,
                  Err(<<"self_openmsg_address_id, pass_code, other_openmsg_address and other_openmsg_address_name cannot be blank">>))
    ELSE Running("authCheck", s, parent, a, "select_user")

authCheck_SelectUser(t) ==
    /\ At(t, "authCheck", "select_user")
    /\ LET s == tasks[t].srv
           self == Address(tasks[t].a.selfId, openmsgDomain(s))
       IN  tasks' = IF self \notin Users(s)
                    THEN Finish(t, Err(<<"User not found">>))
                    ELSE Goto(t, "select_passCode",
                              [selfName |-> "Test OpenMsg Account"])
    /\ UNCHANGED <<now, ticks, variant, rnd, history, hsStore, msgStore, wire>>

\* the lifetime test of a pass code row (and, before it, one that is two
\* seconds more lenient)
passCodeExpired_late(ts, t) == ts < t - oneHour - 2
passCodeExpired(ts, t) == ts < t - oneHour

authCheck_SelectPassCode(t) ==
    /\ At(t, "authCheck", "select_passCode")
    /\ LET s == tasks[t].srv
           a == tasks[t].a
           self == Address(a.selfId, openmsgDomain(s))
           rows == selectPassCodes(passCodes[s], self, a.passCode)
           \* passCodeTimestamp and the clock value it is compared with
           l == [selfName |-> tasks[t].l.selfName,
                 passCodeTimestamp |-> rows[1].ts, at |-> now]
       IN  tasks' =
             IF rows = <<>>
             THEN Finish(t, Err(<<"pass code not valid">>))
             ELSE IF passCodeExpired(rows[1].ts, now)
             THEN [Finish(t, Err(<<"expired pass code, over 1 hour old">>))
                      EXCEPT ![t].l = l]
             ELSE Goto(t, "delete_passCode", l)
    /\ UNCHANGED <<now, ticks, variant, rnd, history, hsStore, msgStore, wire>>

authCheck_DeletePassCode(t) ==
    /\ At(t, "authCheck", "delete_passCode")
    /\ LET s == tasks[t].srv
           a == tasks[t].a
           self == Address(a.selfId, openmsgDomain(s))
           parts == SplitStar(a.other)
           host == Route(parts[2])
           l == [selfName |-> tasks[t].l.selfName,
                 passCodeTimestamp |-> tasks[t].l.passCodeTimestamp,
                 at |-> tasks[t].l.at, child |-> Len(tasks) + 1]
       IN  /\ passCodes' = [passCodes EXCEPT
                  ![s] = deletePassCode(@, self, a.passCode)]
           /\ tasks' =
                IF Len(parts) # 2
                THEN Finish(t, Err(<<"Invalid openmsg address format">>))
                ELSE IF ~IsNumeric(parts[1])
                THEN Finish(t, Err(<<"other_openmsg_address_id should be numeric">>))
                ELSE IF host = ""
                THEN Finish(t, Err(RequestError))
                ELSE Append(Goto(t, "await_confirm", l),
                            authConfirmCall(host, t,
                                [other |-> self, passCode |-> a.passCode]))
    /\ UNCHANGED <<now, ticks, variant, rnd, history, handshakes, connections,
                   msgStore, wire>>

\* whether the auth/confirm response lets the handshake go on
confirmAccepted_any(r) == TRUE
confirmAccepted(r) == ~IsError(r) /\ IsSuccess(r) /\ r.success = TRUE

authCheck_ConfirmResponse(t) ==
    /\ At(t, "authCheck", "await_confirm")
    /\ IsDone(tasks[t].l.child)
    /\ LET r == tasks[tasks[t].l.child].res
           l == tasks[t].l
       IN  IF confirmAccepted(r)
           THEN /\ rnd + 3 <= Len(HexPool)
                /\ rnd' = rnd + 3
                /\ tasks' = Goto(t, "delete_connection",
                       [selfName |-> l.selfName, child |-> l.child,
                        passCodeTimestamp |-> l.passCodeTimestamp, at |-> l.at,
                        authCode |-> generateRandomHex(rnd + 1),
                        identCode |-> generateRandomHex(rnd + 2),
                        messageCryptKey |-> generateRandomHex(rnd + 3)])
           ELSE /\ rnd' = rnd
                /\ tasks' = Finish(t,
                       IF IsError(r) THEN Err(<<"Error: ">> \o r.error_message)
                       ELSE Err(<<"Error: Unsuccessful from /auth/">>))
    /\ UNCHANGED <<now, ticks, variant, history, hsStore, msgStore, wire>>

authCheck_DeleteConnection(t) ==
    /\ At(t, "authCheck", "delete_connection")
    /\ LET s == tasks[t].srv
           self == Address(tasks[t].a.selfId, openmsgDomain(s))
       IN  connections' = [connections EXCEPT
               ![s] = deleteConnections(@, self, tasks[t].a.other)]
    /\ tasks' = Goto(t, "insert_connection", tasks[t].l)
    /\ UNCHANGED <<now, ticks, variant, rnd, history, passCodes, handshakes,
                   msgStore, wire>>

authCheck_InsertConnection(t) ==
    /\ At(t, "authCheck", "insert_connection")
    /\ LET s == tasks[t].srv
           a == tasks[t].a
           l == tasks[t].l
           self == Address(a.selfId, openmsgDomain(s))
       IN  /\ connections' = [connections EXCEPT ![s] = Append(@,
                  [self |-> self, other |-> a.other, name |-> a.otherName,
                   accepts |-> IF a.allow THEN 1 ELSE 0,
                   auth_code |-> l.authCode, ident_code |-> l.identCode,
                   message_crypt_key |-> l.messageCryptKey, by |-> t])]
           /\ tasks' = Finish(t,
                  [success |-> TRUE, auth_code |-> l.authCode,
                   ident_code |-> l.identCode,
                   message_crypt_key |-> l.messageCryptKey,
                   receiving_openmsg_address_name |-> l.selfName])
    /\ UNCHANGED <<now, ticks, variant, rnd, history, passCodes, handshakes,
                   msgStore, wire>>

PostAuth(s, selfId, code, other, name) ==
    /\ tasks' = Append(tasks, authCheckCall(s, 0,
           [selfId |-> selfId, passCode |-> code, other |-> other,
            otherName |-> name, allow |-> TRUE]))
    /\ UNCHANGED <<now, ticks, variant, rnd, history, hsStore, msgStore, wire>>

\* --------------------------------------------------------- initiateHandshake
Result(msg) == [result |-> msg]
Success == <<"Success">>

\* POST /setup/initiate-handshake: the sender's address is fixed by the route
setupSelfId == <<"1", "0", "0", "0", "0", "0", "1">>
setupSelfName == "John Doe"

\* initiateHandshake up to its first await
initiateHandshakeCall(s, a) ==
    LET parts == SplitStar(a.other)
    IN  IF a.other = <<>> \/ a.passCode = <<>> \/ a.self = <<>> \/ a.selfName = ""
           \/ openmsgDomain(s) = <<>>
        THEN Returned("initiateHandshake", s, 0, a, Result(<<"Missing data (8BgrT)">>))
        ELSE IF ~IsNumeric(a.passCode)
        THEN Returned("initiateHandshake", s, 0, a,
                      Result(<<"Please enter a valid Pass Code">>))
        ELSE IF Len(parts) # 2
        THEN Returned("initiateHandshake", s, 0, a, Result(<<"Invalid address format">>))
        ELSE IF ~IsNumeric(parts[1])
        THEN Returned("initiateHandshake", s, 0, a,
                      Result(<<"other_openmsg_address_id not valid ">> \o parts[1]))
        ELSE IF ~IsDomain(parts[2])
        THEN Returned("initiateHandshake", s, 0, a,
                      Result(<<"openmsg_address_domain not valid ">> \o parts[2]))
        ELSE Running("initiateHandshake", s, 0, a, "insert_handshake")

PostInitiateHandshake(s, other, code) ==
    /\ tasks' = Append(tasks, initiateHandshakeCall(s,
           [other |-> other, passCode |-> code,
            self |-> Address(setupSelfId, openmsgDomain(s)),
            selfName |-> setupSelfName, allow |-> TRUE]))
    /\ UNCHANGED <<now, ticks, variant, rnd, history, hsStore, msgStore, wire>>

initiateHandshake_InsertHandshake(t) ==
    /\ At(t, "initiateHandshake", "insert_handshake")
    /\ LET s == tasks[t].srv
           a == tasks[t].a
           parts == SplitStar(a.other)
           host == Route(parts[2])
       IN  /\ handshakes' = [handshakes EXCEPT ![s] = Append(@,
                  [other |-> a.other, code |-> a.passCode, ts |-> now])]
           /\ initiated' = initiated \cup
                  {[srv |-> s, other |-> a.other, code |-> a.passCode,
                    n |-> InitiatedCount(s, a.other, a.passCode) + 1]}
           /\ tasks' =
                IF host = ""
                THEN Finish(t, Result(RequestError))
                ELSE Append(Goto(t, "await_auth", [child |-> Len(tasks) + 1]),
                            authCheckCall(host, t,
                                [selfId |-> parts[1], passCode |-> a.passCode,
                                 other |-> a.self, otherName |-> a.selfName,
                                 allow |-> a.allow]))
    /\ UNCHANGED <<now, ticks, variant, rnd, issued, passCodes, connections,
                   msgStore, wire>>

\* what initiateHandshake returns for an auth response it does not accept
authFailure(v, r) ==
    IF v = "setup"
    THEN IF IsError(r) /\ r.error_message # <<>> THEN r.error_message
         ELSE <<"Handshake failed">>
    ELSE IF IsError(r) THEN <<"Error: ">> \o r.error_message
         ELSE <<"Error: Unsuccessful from initiate-handshake (LyoSV)">>

\* the secrets the initiator stores: those of the auth response
receivedSecrets(r) ==
    [auth_code |-> r.auth_code, ident_code |-> r.ident_code,
     message_crypt_key |-> r.message_crypt_key,
     name |-> r.receiving_openmsg_address_name]

\* the response carries auth_code, ident_code, message_crypt_key and the
\* display name (and, before it, a test that any response passes)
responseComplete_any(r) == TRUE
responseComplete(r) ==
    /\ r.auth_code # "" /\ r.ident_code # "" /\ r.message_crypt_key # ""
    /\ r.receiving_openmsg_address_name # ""

\* initiateHandshake from the arrival of the auth response r; answer keeps
\* the response the call received
authAnswered(t, r) ==
    LET l == [child |-> tasks[t].l.child, answer |-> r]
    IN  IF IsError(r) \/ ~IsSuccess(r)
        THEN [Finish(t, Result(authFailure(variant, r))) EXCEPT ![t].l = l]
        ELSE IF ~responseComplete(r)
        THEN [Finish(t, Result(<<"Error: Missing required data in response">>))
                 EXCEPT ![t].l = l]
        ELSE Goto(t, "delete_connection",
                  [child |-> l.child, answer |-> r, got |-> receivedSecrets(r)])

initiateHandshake_AuthResponse(t) ==
    /\ At(t, "initiateHandshake", "await_auth")
    /\ IsDone(tasks[t].l.child)
    /\ tasks' = authAnswered(t, tasks[tasks[t].l.child].res)
    /\ UNCHANGED <<now, ticks, variant, rnd, history, hsStore, msgStore, wire>>

\* the auth responses of a server that runs another implementation of the
\* protocol: success with one of the four required values left empty
PeerAnswers ==
    LET full == [success |-> TRUE, auth_code |-> "p1", ident_code |-> "p2",
                 message_crypt_key |-> "p3",
                 receiving_openmsg_address_name |-> "Peer"]
    IN  {[full EXCEPT !.auth_code = ""], [full EXCEPT !.ident_code = ""],
         [full EXCEPT !.message_crypt_key = ""],
         [full EXCEPT !.receiving_openmsg_address_name = ""]}

\* the answer to the auth request comes from such a server
initiateHandshake_PeerResponse(t, r) ==
    /\ At(t, "initiateHandshake", "await_auth")
    /\ tasks' = authAnswered(t, r)
    /\ UNCHANGED <<now, ticks, variant, rnd, history, hsStore, msgStore, wire>>

initiateHandshake_DeleteConnection(t) ==
    /\ At(t, "initiateHandshake", "delete_connection")
    /\ connections' = [connections EXCEPT ![tasks[t].srv] =
           deleteConnections(@, tasks[t].a.self, tasks[t].a.other)]
    /\ tasks' = Goto(t, "insert_connection", tasks[t].l)
    /\ UNCHANGED <<now, ticks, variant, rnd, history, passCodes, handshakes,
                   msgStore, wire>>

initiateHandshake_InsertConnection(t) ==
    /\ At(t, "initiateHandshake", "insert_connection")
    /\ LET a == tasks[t].a
           g == tasks[t].l.got
       IN  connections' = [connections EXCEPT ![tasks[t].srv] = Append(@,
               [self |-> a.self, other |-> a.other, name |-> g.name, accepts |-> 1,
                auth_code |-> g.auth_code, ident_code |-> g.ident_code,
                message_crypt_key |-> g.message_crypt_key, by |-> t])]
    /\ tasks' = Finish(t, Result(Success))
    /\ UNCHANGED <<now, ticks, variant, rnd, history, passCodes, handshakes,
                   msgStore, wire>>

\* ------------------------------------------------------------------ crypto
DigitChar(d) == <<"0", "1", "2", "3", "4", "5", "6", "7", "8", "9">>[d + 1]
\* n.toString() of a non-negative integer
RECURSIVE Dec(_)
Dec(n) == IF n < 10 THEN <<DigitChar(n)>>
          ELSE Dec(n \div 10) \o <<DigitChar(n % 10)>>

\* createMessagePackage: base64(nonce || AES-256-GCM(key, plaintext) || tag),
\* kept as its three ingredients; nonce is the value generateRandomBytes drew
createMessagePackage(plaintext, key, nonce) ==
    [package |-> [nonce |-> nonce, key |-> key, text |-> plaintext],
     nonce |-> nonce]

\* the `false` that decryptMessagePackage returns when the tag does not verify
DecryptFailed == <<"#false">>
decryptMessagePackage(package, key) ==
    IF package.key = key THEN package.text ELSE DecryptFailed

\* generateMessageSalt: 32 hex characters, kept as the value drawn for the
\* first 31 and the last character, which is a digit in the values drawn
generateMessageSalt(n) == <<generateRandomHex(n), "7">>

\* sha256(messagePackage + authCode + messageSalt + messageTimestamp.toString()):
\* the package and the 64-character auth code are told apart by their lengths,
\* the salt and the decimal timestamp run into one string
createMessageHash(messagePackage, authCode, messageSalt, messageTimestamp) ==
    <<messagePackage, authCode, messageSalt \o Dec(messageTimestamp)>>

\* Buffer.from(messagePackage, 'base64').slice(0, 16).toString('base64')
packageNonce(package) == package.nonce

\* ------------------------------------------------------------ message results
MsgErr(code, msg) == [error |-> TRUE, response_code |-> code, error_message |-> msg]
MsgOk(code) == [success |-> TRUE, response_code |-> code]

\* SELECT * FROM openmsg_messages_outbox WHERE message_hash = ? AND message_nonce = ?
selectOutbox(tbl, hash, nonce) ==
    SelectSeq(tbl, LAMBDA r : r.message_hash = hash /\ r.message_nonce = nonce)
\* DELETE FROM openmsg_messages_outbox WHERE message_hash = ? AND message_nonce = ?
deleteOutbox(tbl, hash, nonce) ==
    SelectSeq(tbl, LAMBDA r : ~(r.message_hash = hash /\ r.message_nonce = nonce))
\* the same DELETE with LIMIT 1 (and, before it, one that removes nothing)
deleteOutbox_keep(tbl, hash, nonce) == tbl
deleteOutboxOne(tbl, hash, nonce) ==
    IF selectOutbox(tbl, hash, nonce) = <<>> THEN tbl
    ELSE RemoveAt(tbl, CHOOSE i \in 1..Len(tbl) :
                      /\ tbl[i].message_hash = hash /\ tbl[i].message_nonce = nonce
                      /\ \A j \in 1..(i - 1) :
                             ~(tbl[j].message_hash = hash /\ tbl[j].message_nonce = nonce))

\* ------------------------------------------------------------- messageConfirm
\* POST /message/confirm: the handler up to its first await
messageConfirmCall(s, parent, a) ==
    Running("messageConfirm", s, parent, a, "select_outbox")

messageConfirm_Select(t) ==
    /\ At(t, "messageConfirm", "select_outbox")
    /\ LET a == tasks[t].a
           rows == selectOutbox(outbox[tasks[t].srv], a.message_hash, a.message_nonce)
       IN  tasks' =
             IF rows = <<>>
             \* (the setup copy appends the hash to its message)
             THEN Finish(t, Err(IF variant = "setup"
                                THEN <<"Message not found in outbox: ">>
                                ELSE <<"Message not found or already confirmed">>))
             ELSE IF variant = "setup"
             THEN Goto(t, "insert_sent", [message |-> rows[1]])
             ELSE Finish(t, [success |-> TRUE])
    /\ UNCHANGED <<now, ticks, variant, rnd, history, hsStore, msgStore, wire>>

messageConfirm_InsertSent(t) ==
    /\ At(t, "messageConfirm", "insert_sent")
    /\ LET m == tasks[t].l.message
       IN  sent' = [sent EXCEPT ![tasks[t].srv] = Append(@,
               [self |-> m.self, ident_code |-> m.ident_code,
                message_hash |-> m.message_hash, message_text |-> m.message_text])]
    /\ tasks' = Goto(t, "delete_outbox", tasks[t].l)
    /\ UNCHANGED <<now, ticks, variant, rnd, history, hsStore, outbox, inbox, wire>>

messageConfirm_DeleteOutbox(t) ==
    /\ At(t, "messageConfirm", "delete_outbox")
    /\ outbox' = [outbox EXCEPT ![tasks[t].srv] =
           deleteOutboxOne(@, tasks[t].a.message_hash, tasks[t].a.message_nonce)]
    /\ tasks' = Finish(t, [success |-> TRUE])
    /\ UNCHANGED <<now, ticks, variant, rnd, history, hsStore, sent, inbox, wire>>

PostMessageConfirm(s, hash, nonce) ==
    /\ tasks' = Append(tasks, messageConfirmCall(s, 0,
           [message_hash |-> hash, message_nonce |-> nonce]))
    /\ UNCHANGED <<now, ticks, variant, rnd, history, hsStore, msgStore, wire>>

\* --------------------------------------------------------------- messageCheck
\* POST /message/receive: the handler up to its first await
messageCheckCall(s, parent, a) ==
    IF a.receiving_openmsg_address_id = <<>> \/ a.ident_code = ""
       \/ a.message_salt = <<>> \/ a.message_timestamp = 0
    THEN Returned("messageCheck", s, parent, a,
                  MsgErr("SM_E000", <<"Missing data (wMv4J)">>))
    ELSE Running("messageCheck", s, parent, a, "select_connection")

\* messageHash !== createMessageHash(...)
hashMatches_any(supplied, expected) == TRUE
hashMatches(supplied, expected) == supplied = expected

\* (messageTimestamp + messageHashExpirySeconds) < currentTimestamp
messageExpired_late(ts, t) == (ts + messageHashExpirySeconds + 1) < t
messageExpired(ts, t) == (ts + messageHashExpirySeconds) < t

\* a task that returns from the statement it is at, keeping what it read
Reject(t, l, res) ==
    [tasks EXCEPT ![t].pc = "done", ![t].res = res, ![t].l = l,
                  ![t].after = DoneTasks]

messageCheck_SelectConnection(t) ==
    /\ At(t, "messageCheck", "select_connection")
    /\ LET s == tasks[t].srv
           a == tasks[t].a
           self == Address(a.receiving_openmsg_address_id, openmsgDomain(s))
           rows == selectConnectionsByIdent(connections[s], self, a.ident_code)
           c == rows[1]
           parts == SplitStar(c.other)
           host == Route(parts[2])
           l == [rows |-> rows, at |-> now]
           notFound == MsgErr("SM_E001",
               (IF variant = "setup" THEN <<"Could not find user: ">>
                ELSE <<"Could not find user::: ">>) \o self \o <<" (rB6Xl)">>)
       IN  tasks' =
             IF rows = <<>> THEN Reject(t, l, notFound)
             ELSE IF c.auth_code = "" \/ c.message_crypt_key = "" \/ c.other = <<>>
             THEN Reject(t, l,
                    IF variant = "setup"
                    THEN MsgErr("SM_E001", <<"Missing connection data for: ">>
                                           \o self \o <<" (rB6Xl)">>)
                    ELSE notFound)
             ELSE IF Len(parts) # 2
             THEN Reject(t, l, MsgErr("SM_E003", <<"Invalid sending address format">>))
             ELSE IF ~hashMatches(a.message_hash,
                         createMessageHash(a.message_package, c.auth_code,
                                           a.message_salt, a.message_timestamp))
             THEN Reject(t, l, MsgErr("SM_E004",
                    IF variant = "setup"
                    THEN <<"Authorization hash mismatch (4NxWV)">>
                    ELSE <<"There was an error with the authorization (4NxWV)">>))
             ELSE IF messageExpired(a.message_timestamp, now)
             THEN Reject(t, l, MsgErr("SM_E005", <<"Hash is too old (kmqVE)">>))
             ELSE IF host = ""
             THEN Reject(t, l, MsgErr("SM_E000", RequestError))
             ELSE Append(Goto(t, "await_confirm",
                              [rows |-> rows, at |-> now, child |-> Len(tasks) + 1]),
                         messageConfirmCall(host, t,
                             [message_hash |-> a.message_hash,
                              message_nonce |-> packageNonce(a.message_package)]))
    /\ UNCHANGED <<now, ticks, variant, rnd, history, hsStore, msgStore, wire>>

\* whether the message/confirm response lets the receive go on
messageConfirmed_any(r) == TRUE
messageConfirmed(r) == ~IsError(r) /\ IsSuccess(r) /\ r.success = TRUE

\* the test of decryptMessagePackage's result: `=== false` in src/routes,
\* `!decryptedMessage` in src/setup
decryptRejected(v, d) ==
    IF v = "setup" THEN d = DecryptFailed \/ d = <<>> ELSE d = DecryptFailed

messageCheck_ConfirmResponse(t) ==
    /\ At(t, "messageCheck", "await_confirm")
    /\ IsDone(tasks[t].l.child)
    /\ LET r == tasks[tasks[t].l.child].res
           l == tasks[t].l
           c == l.rows[1]
           d == decryptMessagePackage(tasks[t].a.message_package, c.message_crypt_key)
       IN  tasks' =
             IF ~messageConfirmed(r)
             THEN Finish(t, MsgErr("SM_E000",
                    IF ~IsError(r) THEN <<"Unsuccessful - unknown reason (x8rXc)">>
                    ELSE IF variant = "setup" THEN r.error_message
                    ELSE <<"Error: ">> \o r.error_message \o <<" (PqN9h)">>))
             ELSE IF decryptRejected(variant, d)
             THEN Finish(t, MsgErr("SM_E005",
                                   <<"Invalid key or corrupt message (QctWn)">>))
             ELSE Goto(t, "insert_inbox",
                       [rows |-> l.rows, at |-> l.at, child |-> l.child, text |-> d])
    /\ UNCHANGED <<now, ticks, variant, rnd, history, hsStore, msgStore, wire>>

messageCheck_InsertInbox(t) ==
    /\ At(t, "messageCheck", "insert_inbox")
    /\ LET s == tasks[t].srv
           a == tasks[t].a
       IN  inbox' = [inbox EXCEPT ![s] = Append(@,
               [self |-> Address(a.receiving_openmsg_address_id, openmsgDomain(s)),
                ident_code |-> a.ident_code, message_hash |-> a.message_hash,
                message_text |-> tasks[t].l.text, by |-> t])]
    /\ tasks' = Finish(t, MsgOk("SM_S888"))
    /\ UNCHANGED <<now, ticks, variant, rnd, history, hsStore, outbox, sent, wire>>

PostReceive(s, req) ==
    /\ tasks' = Append(tasks, messageCheckCall(s, 0, req))
    /\ UNCHANGED <<now, ticks, variant, rnd, history, hsStore, msgStore, wire>>

\* ---------------------------------------------------------------- sendMessage
\* POST /setup/send-message: the handler up to its first await
sendMessageCall(s, a) == Running("sendMessage", s, 0, a, "select_connection")

PostSendMessage(s, text, sending, receiving) ==
    /\ tasks' = Append(tasks, sendMessageCall(s,
           [text |-> text, self |-> sending, other |-> receiving]))
    /\ UNCHANGED <<now, ticks, variant, rnd, history, hsStore, msgStore, wire>>

sendMessage_SelectConnection(t) ==
    /\ At(t, "sendMessage", "select_connection")
    /\ LET s == tasks[t].srv
           a == tasks[t].a
           rows == selectConnections(connections[s], a.self, a.other)
           c == rows[1]
           parts == SplitStar(a.other)
           pkg == createMessagePackage(a.text, c.message_crypt_key,
                                       generateRandomHex(rnd + 1))
           salt == generateMessageSalt(rnd + 2)
       IN  IF rows = <<>>
           THEN /\ rnd' = rnd
                /\ tasks' = Finish(t, MsgErr("SM_E001",
                       <<"No matching connection between these users">>))
           ELSE IF Len(parts) # 2
           THEN /\ rnd' = rnd
                /\ tasks' = Finish(t, MsgErr(
                       IF variant = "setup" THEN "SM_E003" ELSE "SM_E000",
                       <<"Invalid receiving address format">>))
           ELSE /\ rnd + 2 <= Len(HexPool)
                /\ rnd' = rnd + 2
                /\ tasks' = Goto(t, "insert_outbox",
                       [ident_code |-> c.ident_code,
                        package |-> pkg.package, nonce |-> pkg.nonce,
                        salt |-> salt, timestamp |-> now,
                        hash |-> createMessageHash(pkg.package, c.auth_code, salt, now)])
    /\ UNCHANGED <<now, ticks, variant, history, hsStore, msgStore, wire>>

\* INSERT INTO openmsg_messages_outbox, awaited before the request is posted
\* (and, before it, a handler that posts without having inserted)
insertOutbox_skip(tbl, row) == tbl
insertOutbox(tbl, row) == Append(tbl, row)

sendMessage_InsertOutbox(t) ==
    /\ At(t, "sendMessage", "insert_outbox")
    /\ LET s == tasks[t].srv
           a == tasks[t].a
           l == tasks[t].l
           parts == SplitStar(a.other)
           host == Route(parts[2])
           req == [receiving_openmsg_address_id |-> parts[1],
                   ident_code |-> l.ident_code,
                   message_package |-> l.package,
                   message_hash |-> l.hash,
                   message_salt |-> l.salt,
                   message_timestamp |-> l.timestamp]
       IN  /\ outbox' = [outbox EXCEPT ![s] = insertOutbox(@,
                  [self |-> a.self, ident_code |-> l.ident_code,
                   message_hash |-> l.hash, message_nonce |-> l.nonce,
                   message_text |-> a.text])]
           /\ IF host = ""
              THEN /\ wire' = wire
                   /\ tasks' = Finish(t, MsgErr("SM_E000", RequestError))
              ELSE /\ wire' = wire \cup {[to |-> host, req |-> req]}
                   /\ tasks' = Append(
                          Goto(t, "await_receive",
                               [hash |-> l.hash, nonce |-> l.nonce,
                                ident_code |-> l.ident_code, child |-> Len(tasks) + 1]),
                          messageCheckCall(host, t, req))
    /\ UNCHANGED <<now, ticks, variant, rnd, history, hsStore, sent, inbox>>

sendMessage_ReceiveResponse(t) ==
    /\ At(t, "sendMessage", "await_receive")
    /\ IsDone(tasks[t].l.child)
    /\ LET r == tasks[tasks[t].l.child].res
       IN  tasks' =
             IF IsError(r)
             THEN Finish(t, MsgErr(r.response_code,
                    IF variant = "setup" THEN r.error_message
                    ELSE <<"Error: ">> \o r.error_message \o <<" (siULi)">>))
             ELSE IF variant = "setup"
             THEN Finish(t, MsgOk(r.response_code))
             ELSE IF ~(IsSuccess(r) /\ r.success = TRUE)
             THEN Finish(t, MsgErr("SM_E000", <<"Unsuccessful (5Ljkz)">>))
             ELSE Goto(t, "insert_sent",
                       [hash |-> tasks[t].l.hash, nonce |-> tasks[t].l.nonce,
                        ident_code |-> tasks[t].l.ident_code,
                        child |-> tasks[t].l.child,
                        response_code |-> r.response_code])
    /\ UNCHANGED <<now, ticks, variant, rnd, history, hsStore, msgStore, wire>>

sendMessage_InsertSent(t) ==
    /\ At(t, "sendMessage", "insert_sent")
    /\ sent' = [sent EXCEPT ![tasks[t].srv] = Append(@,
           [self |-> tasks[t].a.self, ident_code |-> tasks[t].l.ident_code,
            message_hash |-> tasks[t].l.hash, message_text |-> tasks[t].a.text])]
    /\ tasks' = Goto(t, "delete_outbox", tasks[t].l)
    /\ UNCHANGED <<now, ticks, variant, rnd, history, hsStore, outbox, inbox, wire>>

sendMessage_DeleteOutbox(t) ==
    /\ At(t, "sendMessage", "delete_outbox")
    /\ outbox' = [outbox EXCEPT ![tasks[t].srv] =
           deleteOutbox(@, tasks[t].l.hash, tasks[t].l.nonce)]
    /\ tasks' = Finish(t, MsgOk(tasks[t].l.response_code))
    /\ UNCHANGED <<now, ticks, variant, rnd, history, hsStore, sent, inbox, wire>>

\* ---------------------------------------------------------- transport failures
\* axios.post throws (connection error, timeout, non-2xx status): the caller
\* returns from its catch block; a request that was delivered is still served
initiateHandshake_AuthFailed(t) ==
    /\ At(t, "initiateHandshake", "await_auth")
    /\ tasks' = Finish(t, Result(RequestError))
    /\ UNCHANGED <<now, ticks, variant, rnd, history, hsStore, msgStore, wire>>

authCheck_ConfirmFailed(t) ==
    /\ At(t, "authCheck", "await_confirm")
    /\ tasks' = Finish(t, Err(RequestError))
    /\ UNCHANGED <<now, ticks, variant, rnd, history, hsStore, msgStore, wire>>

sendMessage_ReceiveFailed(t) ==
    /\ At(t, "sendMessage", "await_receive")
    /\ tasks' = Finish(t, MsgErr("SM_E000", RequestError))
    /\ UNCHANGED <<now, ticks, variant, rnd, history, hsStore, msgStore, wire>>

messageCheck_ConfirmFailed(t) ==
    /\ At(t, "messageCheck", "await_confirm")
    /\ tasks' = Finish(t, MsgErr("SM_E000", RequestError))
    /\ UNCHANGED <<now, ticks, variant, rnd, history, hsStore, msgStore, wire>>


\* ------------------------------------------------------------ store failures
\* what pool.execute can throw
StoreFaults == {"ER_LOCK_DEADLOCK", "ECONNREFUSED"}

\* the text the catch blocks of the handlers return: the error is logged and
\* does not appear in it (and, before it, one that would show the error)
databaseError_detail(kind, v, e) == <<"Database error", e>>
databaseError(kind, v, e) ==
    IF kind = "messageConfirm" /\ v = "setup"
    THEN <<"Database error during confirmation">>
    ELSE <<"Database error">>

\* the result a handler returns from its outer catch block
caught(kind, v, e) ==
    CASE kind = "initiateHandshake" -> Result(databaseError(kind, v, e))
      [] kind \in {"authCheck", "authConfirm", "messageConfirm"} ->
            Err(databaseError(kind, v, e))
      [] kind \in {"sendMessage", "messageCheck"} ->
            MsgErr("SM_E000", databaseError(kind, v, e))

\* the handler is at a statement that calls pool.execute
AtStatement(t) ==
    /\ t \in 1..Len(tasks)
    /\ tasks[t].pc \notin {"done", "await_auth", "await_confirm", "await_receive"}

\* the statement throws e: nothing is written and the handler returns from
\* its catch block
StoreFailed(t, e) ==
    /\ AtStatement(t)
    /\ tasks' = [Finish(t, caught(tasks[t].kind, variant, e))
                    EXCEPT ![t].l = [fault |-> e] @@ tasks[t].l]
    /\ UNCHANGED <<now, ticks, variant, rnd, history, hsStore, msgStore, wire>>

\* ------------------------------------------------------------ specifications
EmptyStore == [s \in Servers |-> <<>>]

Init ==
    /\ now = StartTime
    /\ ticks = 0
    /\ variant \in Variants
    /\ rnd = 0
    /\ issued = {}
    /\ initiated = {}
    /\ passCodes = EmptyStore
    /\ handshakes = EmptyStore
    /\ connections = EmptyStore
    /\ outbox = EmptyStore
    /\ sent = EmptyStore
    /\ inbox = EmptyStore
    /\ tasks = <<>>
    /\ wire = {}

\* the addresses of the handshake runs: the initiator's server is a, the
\* account that issued the pass code is 0*b
Initiator == Address(setupSelfId, openmsgDomain("a"))
Responder == Address(<<"0">>, openmsgDomain("b"))

Handlers ==
    \E t \in 1..Len(tasks) :
        \/ initiateHandshake_InsertHandshake(t)
        \/ initiateHandshake_AuthResponse(t)
        \/ initiateHandshake_DeleteConnection(t)
        \/ initiateHandshake_InsertConnection(t)
        \/ authCheck_SelectUser(t)
        \/ authCheck_SelectPassCode(t)
        \/ authCheck_DeletePassCode(t)
        \/ authCheck_ConfirmResponse(t)
        \/ authCheck_DeleteConnection(t)
        \/ authCheck_InsertConnection(t)
        \/ authConfirm_Select(t)
        \/ authConfirm_Delete(t)

\* requests in progress: the unfinished tasks no running task waits for
Active == {t \in 1..Len(tasks) :
              ~IsDone(t) /\ (tasks[t].parent = 0 \/ IsDone(tasks[t].parent))}

\* Handshakes between 1000001*a and 0*b and direct calls of the two auth
\* endpoints, at most MaxActive requests at a time.
MayRequest == Cardinality(Roots) < MaxRoots /\ Cardinality(Active) < MaxActive

Next ==
    \/ \E c \in {Code1} : RequestPassCode("b", Responder, c)
    \/ MayRequest /\ \E c \in {Code1} : PostInitiateHandshake("a", Responder, c)
    \/ MayRequest /\ \E c \in {Code1} : PostAuth("b", <<"0">>, c, Initiator, setupSelfName)
    \/ MayRequest /\ \E c \in {Code1} : PostAuthConfirm("a", Responder, c)
    \/ Handlers

Spec == Init /\ [][Next]_vars

\* The same requests, MaxRace of them, all running concurrently.
MayRace == Cardinality(Roots) < MaxRace

NextRace ==
    \/ \E c \in {Code1} : RequestPassCode("b", Responder, c)
    \/ MayRace /\ \E c \in {Code1} : PostInitiateHandshake("a", Responder, c)
    \/ MayRace /\ \E c \in {Code1} : PostAuth("b", <<"0">>, c, Initiator, setupSelfName)
    \/ MayRace /\ \E c \in {Code1} : PostAuthConfirm("a", Responder, c)
    \/ Handlers

SpecRace == Init /\ [][NextRace]_vars


\* ------------------------------------------------------ message specification
MsgHandlers ==
    \E t \in 1..Len(tasks) :
        \/ sendMessage_SelectConnection(t)
        \/ sendMessage_InsertOutbox(t)
        \/ sendMessage_ReceiveResponse(t)
        \/ sendMessage_InsertSent(t)
        \/ sendMessage_DeleteOutbox(t)
        \/ messageCheck_SelectConnection(t)
        \/ messageCheck_ConfirmResponse(t)
        \/ messageCheck_InsertInbox(t)
        \/ messageConfirm_Select(t)
        \/ messageConfirm_InsertSent(t)
        \/ messageConfirm_DeleteOutbox(t)

\* the stores after one handshake between 1000001*a and 0*b
Established ==
    [s \in Servers |->
        IF s = "a"
        THEN <<[self |-> Initiator, other |-> Responder,
                name |-> "Test OpenMsg Account", accepts |-> 1,
                auth_code |-> generateRandomHex(1),
                ident_code |-> generateRandomHex(2),
                message_crypt_key |-> generateRandomHex(3), by |-> 0]>>
        ELSE <<[self |-> Responder, other |-> Initiator,
                name |-> setupSelfName, accepts |-> 1,
                auth_code |-> generateRandomHex(1),
                ident_code |-> generateRandomHex(2),
                message_crypt_key |-> generateRandomHex(3), by |-> 0]>>]

InitMsg ==
    /\ now = StartTime
    /\ ticks = 0
    /\ variant \in Variants
    /\ rnd = 3
    /\ issued = {}
    /\ initiated = {}
    /\ passCodes = EmptyStore
    /\ handshakes = EmptyStore
    /\ connections = Established
    /\ outbox = EmptyStore
    /\ sent = EmptyStore
    /\ inbox = EmptyStore
    /\ tasks = <<>>
    /\ wire = {}

\* message_text values: a text and the empty string
Texts == {<<"h", "i">>, <<>>}

\* what a party that saw a receive request on the wire can post: the request
\* itself, or a copy with another hash, ident code or timestamp
ForgeKinds == {"replay", "hash", "ident", "timestamp"}
Forge(req, kind) ==
    CASE kind = "replay" -> req
      [] kind = "hash" ->
            [req EXCEPT !.message_hash =
                createMessageHash(req.message_package, "guess",
                                  req.message_salt, req.message_timestamp)]
      [] kind = "ident" -> [req EXCEPT !.ident_code = "guess"]
      [] kind = "timestamp" -> [req EXCEPT !.message_timestamp = 0]

SendTasks == {t \in 1..Len(tasks) : tasks[t].kind = "sendMessage"}
ReceiveTasks == {t \in 1..Len(tasks) : tasks[t].kind = "messageCheck"}
DirectReceives == {t \in ReceiveTasks : tasks[t].parent = 0}

NextMsg ==
    \/ /\ Cardinality(SendTasks) < MaxSend
       /\ \E text \in Texts : PostSendMessage("a", text, Initiator, Responder)
    \/ /\ Cardinality(DirectReceives) < MaxReceive
       /\ \E w \in wire : \E k \in ForgeKinds : PostReceive(w.to, Forge(w.req, k))
    \/ \E d \in TickSteps : Tick(d)
    \/ MsgHandlers

SpecMsg == InitMsg /\ [][NextMsg]_vars

\* --------------------------------------------------- re-handshake specification
\* two pass codes of 0*b are stored; handshakes for them run concurrently and
\* messages are sent once they have all returned
InitRekey ==
    /\ now = StartTime
    /\ ticks = 0
    /\ variant \in Variants
    /\ rnd = 0
    /\ issued = {[self |-> Responder, code |-> c, n |-> 1] : c \in {Code1, Code2}}
    /\ initiated = {}
    /\ passCodes = [s \in Servers |->
           IF s = "b" THEN <<[self |-> Responder, code |-> Code1, ts |-> StartTime],
                             [self |-> Responder, code |-> Code2, ts |-> StartTime]>>
           ELSE <<>>]
    /\ handshakes = EmptyStore
    /\ connections = EmptyStore
    /\ outbox = EmptyStore
    /\ sent = EmptyStore
    /\ inbox = EmptyStore
    /\ tasks = <<>>
    /\ wire = {}

HandshakeTasks ==
    {t \in 1..Len(tasks) :
        tasks[t].kind \in {"initiateHandshake", "authCheck", "authConfirm"}}

NextRekey ==
    \/ /\ Cardinality(Roots) < MaxRekey
       /\ SendTasks = {}
       /\ \E c \in {Code1, Code2} :
            /\ \A t \in 1..Len(tasks) : tasks[t].a.passCode # c
            /\ PostInitiateHandshake("a", Responder, c)
    \/ Handlers
    \/ /\ Cardinality(SendTasks) < MaxRekeySend
       /\ HandshakeTasks # {} /\ HandshakeTasks \subseteq DoneTasks
       /\ PostSendMessage("a", <<"h", "i">>, Initiator, Responder)
    \/ MsgHandlers

SpecRekey == InitRekey /\ [][NextRekey]_vars


\* -------------------------------------------- specifications with failures
\* one handshake at a time, any of whose HTTP calls may fail
NextHsFail ==
    \/ \E c \in {Code1} : RequestPassCode("b", Responder, c)
    \/ MayRequest /\ \E c \in {Code1} : PostInitiateHandshake("a", Responder, c)
    \/ Handlers
    \/ \E t \in 1..Len(tasks) :
          \/ initiateHandshake_AuthFailed(t)
          \/ authCheck_ConfirmFailed(t)

SpecHsFail == Init /\ [][NextHsFail]_vars

\* messages over an established Connection, any of whose HTTP calls may fail
NextMsgFail ==
    \/ /\ Cardinality(SendTasks) < MaxSend
       /\ \E text \in Texts : PostSendMessage("a", text, Initiator, Responder)
    \/ MsgHandlers
    \/ \E t \in 1..Len(tasks) :
          \/ sendMessage_ReceiveFailed(t)
          \/ messageCheck_ConfirmFailed(t)

SpecMsgFail == InitMsg /\ [][NextMsgFail]_vars

\* ------------------------------------------------------------------- claims
AuthTasks == {t \in 1..Len(tasks) : tasks[t].kind = "authCheck"}
ConfirmTasks == {t \in 1..Len(tasks) : tasks[t].kind = "authConfirm"}
InitiateTasks == {t \in 1..Len(tasks) : tasks[t].kind = "initiateHandshake"}

\* the address whose pass code an auth call presents
OwnerOf(t) == Address(tasks[t].a.selfId, openmsgDomain(tasks[t].srv))
SamePair(t, u) ==
    /\ tasks[t].srv = tasks[u].srv
    /\ tasks[t].a.selfId = tasks[u].a.selfId
    /\ tasks[t].a.passCode = tasks[u].a.passCode
Succeeded(t) == IsDone(t) /\ IsSuccess(tasks[t].res)
\* an auth call that sent the auth/confirm callback
PastConsumption(t) == "child" \in DOMAIN tasks[t].l

\* u is a repeat of the successful auth call t: the same pair, presented
\* after t returned, with only one pass code row ever stored for the pair
RepeatOf(t, u) ==
    /\ t \in AuthTasks /\ u \in AuthTasks /\ t # u
    /\ SamePair(t, u)
    /\ Succeeded(t)
    /\ t \in tasks[u].before
    /\ tasks[u].a.other # <<>> /\ tasks[u].a.otherName # ""
    /\ IssuedCount(OwnerOf(t), tasks[t].a.passCode) = 1

\* C1: with one pass code row stored for (owner_address, code), an auth call
\* that presents the pair after a successful auth call for it has returned
\* fails with "pass code not valid" (so exactly one such call succeeds).
C1_RepeatedAuthFails ==
    \A t \in AuthTasks : \A u \in AuthTasks :
        (RepeatOf(t, u) /\ IsDone(u)) =>
            tasks[u].res = Err(<<"pass code not valid">>)

C1_Witness ==
    \E t \in AuthTasks : \E u \in AuthTasks :
        /\ RepeatOf(t, u)
        /\ IsDone(u)
        /\ tasks[u].res = Err(<<"pass code not valid">>)

\* C2: when auth calls for the same (owner_address, code) run concurrently
\* and one pass code row was stored for the pair, at most one of them gets
\* past the pass code consumption (sends the auth/confirm callback).
C2_RedeemedOnce ==
    \A t \in AuthTasks : \A u \in AuthTasks :
        (/\ t # u /\ SamePair(t, u)
         /\ IssuedCount(OwnerOf(t), tasks[t].a.passCode) = 1
         /\ PastConsumption(t))
        => ~PastConsumption(u)

SameRecord(t, u) ==
    /\ tasks[t].srv = tasks[u].srv
    /\ tasks[t].a = tasks[u].a

\* C3: one HandshakeRecord for (other_address, pass_code) satisfies one
\* auth/confirm call: at most one call for the pair returns success, and a
\* call that starts after a successful one returned gets the not-found error.
C3_ConfirmOneShot ==
    \A t \in ConfirmTasks : \A u \in ConfirmTasks :
        (/\ t # u /\ SameRecord(t, u)
         /\ InitiatedCount(tasks[t].srv, tasks[t].a.other, tasks[t].a.passCode) = 1
         /\ Succeeded(t) /\ IsDone(u))
        => /\ ~Succeeded(u)
           /\ t \in tasks[u].before =>
                tasks[u].res = Err(<<"unknown pending authorization with ">>
                    \o tasks[u].a.other \o <<", ">> \o tasks[u].a.passCode)

\* the rows of server s that its Auth Responder inserted
ResponderRows(s) ==
    {i \in 1..Len(connections[s]) : connections[s][i].by \in AuthTasks}

\* the auth/confirm call k held a record for (self, code), at most 60 seconds
\* old, on the server of the domain named in other, and deleted it
Consumed(k, self, other, code) ==
    /\ k \in ConfirmTasks
    /\ Succeeded(k)
    /\ Len(SplitStar(other)) = 2
    /\ tasks[k].srv = Route(SplitStar(other)[2])
    /\ tasks[k].a = [other |-> self, passCode |-> code]
    /\ tasks[k].l.found.other = self /\ tasks[k].l.found.code = code
    /\ tasks[k].l.found.ts + handshakeExpiry >= tasks[k].l.at
    /\ tasks[k].l.deleted = 1

\* C4: every Connection of an Auth Responder was inserted after its own
\* auth/confirm callback succeeded, that is after the server of the domain in
\* other_address held a HandshakeRecord (self_address, pass_code) no older
\* than 60 seconds and consumed it for this request.
C4_AntiSpoofing ==
    \A s \in Servers : \A i \in ResponderRows(s) :
        LET c == connections[s][i]
            t == c.by
        IN  /\ PastConsumption(t)
            /\ Consumed(tasks[t].l.child, c.self, c.other, tasks[t].a.passCode)

SameSecrets(c, d) ==
    /\ c.auth_code = d.auth_code
    /\ c.ident_code = d.ident_code
    /\ c.message_crypt_key = d.message_crypt_key

\* the initiator's and the responder's store hold a Connection for the pair
\* of initiateHandshake call t with the same three secrets
Mirrored(t) ==
    LET a == tasks[t].a
        h == Route(SplitStar(a.other)[2])
        mine == selectConnections(connections[tasks[t].srv], a.self, a.other)
        theirs == selectConnections(connections[h], a.other, a.self)
    IN  \E i \in 1..Len(mine) : \E j \in 1..Len(theirs) :
            SameSecrets(mine[i], theirs[j])

ReturnsSuccess(t) ==
    /\ t \in InitiateTasks
    /\ ~IsDone(t)
    /\ tasks'[t].pc = "done"
    /\ tasks'[t].res = Result(Success)

\* C5: when initiateHandshake returns Success, the initiator holds a
\* Connection (self, other) and the responder a Connection (other, self)
\* with identical auth_code, ident_code and message_key.
C5_MirroredOnSuccess ==
    [][\A t \in 1..Len(tasks) : ReturnsSuccess(t) => Mirrored(t)']_vars

AllDone == \A t \in 1..Len(tasks) : IsDone(t)

\* C6: once all running handshake operations have finished, no store holds
\* two Connection rows for one (self_address, other_address).
C6_OneRowPerPair ==
    AllDone =>
        \A s \in Servers : \A i \in 1..Len(connections[s]) :
            \A j \in 1..Len(connections[s]) :
                (connections[s][i].self = connections[s][j].self
                 /\ connections[s][i].other = connections[s][j].other) => i = j

\* the tasks that inserted a Connection (self, other) into the store of s
Installers(s, self, other) ==
    {t \in 1..Len(tasks) :
        /\ tasks[t].srv = s
        /\ IsDone(t)
        /\ \/ /\ tasks[t].kind = "authCheck"
              /\ IsSuccess(tasks[t].res)
              /\ Address(tasks[t].a.selfId, openmsgDomain(s)) = self
              /\ tasks[t].a.other = other
           \/ /\ tasks[t].kind = "initiateHandshake"
              /\ tasks[t].res = Result(Success)
              /\ tasks[t].a.self = self
              /\ tasks[t].a.other = other}
\* the secrets of the row that t inserted
InstalledIdent(t) ==
    IF tasks[t].kind = "authCheck" THEN tasks[t].res.ident_code
    ELSE tasks[t].l.got.ident_code
InstalledAuth(t) ==
    IF tasks[t].kind = "authCheck" THEN tasks[t].res.auth_code
    ELSE tasks[t].l.got.auth_code

\* the receive request of task m carries secrets that handshake t installed
CarriesSecretsOf(m, t) ==
    LET a == tasks[m].a
    IN  \/ a.ident_code = InstalledIdent(t)
        \/ a.message_hash = createMessageHash(a.message_package, InstalledAuth(t),
                                a.message_salt, a.message_timestamp)

\* C7: once a later handshake of the same pair has replaced a server's
\* Connection (and every handshake has returned), a receive request that
\* arrives carrying the ident_code of the replaced Connection, or a hash made
\* with its auth_code, writes no InboxEntry on that server.
C7_OldSecretsInvalid ==
    \A s \in Servers : \A i \in 1..Len(inbox[s]) :
        LET m == inbox[s][i].by
            self == inbox[s][i].self
        IN  \A other \in {Initiator, Responder} :
              \A t1 \in Installers(s, self, other) :
                \A t2 \in Installers(s, self, other) :
                    (/\ t1 # t2
                     /\ t1 \in tasks[t2].after
                     /\ HandshakeTasks \subseteq tasks[m].before)
                    => ~CarriesSecretsOf(m, t1)

\* the receive call m looked a Connection up and found one
Looked(m) ==
    /\ m \in ReceiveTasks
    /\ "at" \in DOMAIN tasks[m].l
    /\ tasks[m].l.rows # <<>>
\* the Connection it found
FoundConnection(m) == tasks[m].l.rows[1]
\* the supplied hash is the one recomputed with that Connection's auth_code
HashCorrect(m) ==
    tasks[m].a.message_hash =
        createMessageHash(tasks[m].a.message_package, FoundConnection(m).auth_code,
                          tasks[m].a.message_salt, tasks[m].a.message_timestamp)
\* the receive call went on to the message/confirm callback
CalledBack(m) == "child" \in DOMAIN tasks[m].l
ReturnedCode(m, code) == IsDone(m) /\ tasks[m].res.response_code = code
\* now - timestamp when the receiver read the clock
Age(m) == tasks[m].l.at - tasks[m].a.message_timestamp

C9_AsStated ==
    \A m \in ReceiveTasks :
        Looked(m) =>
            /\ (Age(m) = 59 /\ HashCorrect(m)) => CalledBack(m)
            /\ Age(m) = 61 => ReturnedCode(m, "SM_E005")

\* C9: a receive request with a correct hash and timestamp = now - 59 passes
\* the freshness check (the receiver goes on to the confirm callback); one
\* with timestamp = now - 61 is rejected with SM_E005 when its hash is
\* correct and with SM_E004 when it is not, and never reaches the callback.
C9_ReplayWindow ==
    \A m \in ReceiveTasks :
        Looked(m) =>
            /\ (Age(m) = 59 /\ HashCorrect(m)) => CalledBack(m)
            /\ (Age(m) = 61 /\ HashCorrect(m)) => ReturnedCode(m, "SM_E005")
            /\ (Age(m) = 61 /\ ~HashCorrect(m)) => ReturnedCode(m, "SM_E004")
            /\ Age(m) = 61 => ~CalledBack(m)

C9_Witness ==
    /\ \E m \in ReceiveTasks :
          Looked(m) /\ Age(m) = 59 /\ HashCorrect(m) /\ ReturnedCode(m, "SM_S888")
    /\ \E m \in ReceiveTasks :
          Looked(m) /\ Age(m) = 61 /\ HashCorrect(m) /\ ReturnedCode(m, "SM_E005")

\* C10: a receive call whose supplied hash differs from the hash recomputed
\* with the found Connection's auth_code returns SM_E004, makes no
\* message/confirm callback and writes no InboxEntry.
C10_HashMismatch ==
    \A m \in ReceiveTasks :
        (Looked(m) /\ ~HashCorrect(m)) =>
            /\ ReturnedCode(m, "SM_E004")
            /\ ~CalledBack(m)
            /\ \A k \in 1..Len(tasks) : tasks[k].parent # m
            /\ \A s \in Servers : \A i \in 1..Len(inbox[s]) : inbox[s][i].by # m

C10_Witness ==
    \E m \in ReceiveTasks :
        /\ Looked(m) /\ ~HashCorrect(m)
        /\ ReturnedCode(m, "SM_E004")
        /\ Age(m) <= messageHashExpirySeconds


\* the receive call m looked for a Connection and found none
LookedInVain(m) ==
    /\ m \in ReceiveTasks
    /\ "at" \in DOMAIN tasks[m].l
    /\ tasks[m].l.rows = <<>>

\* C11: a receive call that finds no Connection for (self_address,
\* ident_code) returns response code SM_E002 (sender not authorized), makes
\* no message/confirm callback and writes no InboxEntry.
C11_SenderNotAuthorized ==
    \A m \in ReceiveTasks :
        LookedInVain(m) =>
            /\ ReturnedCode(m, "SM_E002")
            /\ ~CalledBack(m)
            /\ \A k \in 1..Len(tasks) : tasks[k].parent # m
            /\ \A s \in Servers : \A i \in 1..Len(inbox[s]) : inbox[s][i].by # m


ConfirmMsgTasks == {t \in 1..Len(tasks) : tasks[t].kind = "messageConfirm"}

\* task d has returned after deleting the OutboxEntry (hash, nonce), with its
\* SentEntry written: messageConfirm in src/setup, sendMessage in src/routes
Promoted(d, hash, nonce) ==
    /\ d \in 1..Len(tasks)
    /\ IsDone(d)
    /\ IsSuccess(tasks[d].res)
    /\ \/ /\ variant = "setup"
          /\ tasks[d].kind = "messageConfirm"
          /\ tasks[d].a.message_hash = hash
          /\ tasks[d].a.message_nonce = nonce
       \/ /\ variant = "routes"
          /\ tasks[d].kind = "sendMessage"
          /\ tasks[d].l.hash = hash
          /\ tasks[d].l.nonce = nonce

\* k is a messageConfirm call made after the promotion of its (hash, nonce)
LaterConfirm(k) ==
    /\ k \in ConfirmMsgTasks
    /\ \E d \in tasks[k].before :
          Promoted(d, tasks[k].a.message_hash, tasks[k].a.message_nonce)

\* C12: once the OutboxEntry for (hash, nonce) has been promoted to Sent and
\* deleted from the Outbox, every messageConfirm call made afterwards for the
\* same (hash, nonce) returns the not-found error.
C12_ConfirmOnce ==
    \A k \in ConfirmMsgTasks :
        (LaterConfirm(k) /\ IsDone(k)) =>
            /\ IsError(tasks[k].res)
            /\ tasks[k].res.error_message \in
                   {<<"Message not found in outbox: ">>,
                    <<"Message not found or already confirmed">>}

C12_Witness ==
    \E k \in ConfirmMsgTasks :
        LaterConfirm(k) /\ IsDone(k) /\ IsError(tasks[k].res)


\* the SentEntry rows and OutboxEntry rows of the message that send call t made
SentOf(t) ==
    SelectSeq(sent[tasks[t].srv], LAMBDA r : r.message_hash = tasks[t].l.hash)
OutboxOf(t) ==
    selectOutbox(outbox[tasks[t].srv], tasks[t].l.hash, tasks[t].l.nonce)

SendReturnsSuccess(t) ==
    /\ t \in SendTasks
    /\ ~IsDone(t)
    /\ tasks'[t].pc = "done"
    /\ IsSuccess(tasks'[t].res)

\* C13: when sendMessage returns success, the sender's store holds exactly
\* one SentEntry with the message's hash and no OutboxEntry with its
\* (message_hash, message_nonce).
C13_SentOnceOnSuccess ==
    [][\A t \in 1..Len(tasks) :
          SendReturnsSuccess(t) => (Len(SentOf(t)) = 1 /\ OutboxOf(t) = <<>>)']_vars


\* send call t inserted its OutboxEntry and then returned a failure
SendFailed(t) ==
    /\ t \in SendTasks
    /\ IsDone(t)
    /\ IsError(tasks[t].res)
    /\ "hash" \in DOMAIN tasks[t].l
\* ... because its POST to message/receive threw
SendTransportFailed(t) ==
    SendFailed(t) /\ tasks[t].res.error_message = RequestError

\* C14: after sendMessage returned a failure because the POST to
\* message/receive ended in a transport error or timeout, the OutboxEntry it
\* inserted is still in the Outbox and there is no SentEntry for the message.
C14_OutboxRemains ==
    \A t \in SendTasks :
        SendTransportFailed(t) => (OutboxOf(t) # <<>> /\ SentOf(t) = <<>>)

\* C15: when initiateHandshake has returned anything other than Success, no
\* store holds a Connection that the auth call of that attempt inserted.
C15_NoOrphanConnection ==
    \A t \in InitiateTasks :
        (IsDone(t) /\ tasks[t].res # Result(Success)) =>
            \A s \in Servers : \A i \in 1..Len(connections[s]) :
                ~(/\ connections[s][i].by \in AuthTasks
                  /\ tasks[connections[s][i].by].parent = t)

\* C16: when sendMessage has returned a failure for a message, the receiver's
\* Inbox holds no InboxEntry with that message's hash.
C16_NoOrphanInbox ==
    \A t \in SendTasks :
        SendFailed(t) =>
            \A s \in Servers : \A i \in 1..Len(inbox[s]) :
                inbox[s][i].message_hash # tasks[t].l.hash


\* some store's Inbox holds an InboxEntry with the hash and text of SentEntry r
Delivered(r) ==
    \E s \in Servers : \E j \in 1..Len(inbox[s]) :
        /\ inbox[s][j].message_hash = r.message_hash
        /\ inbox[s][j].message_text = r.message_text

\* C17: in every state with no operation in progress, each SentEntry of the
\* sender has an InboxEntry on the receiver with the same hash and plaintext.
C17_SentWasDelivered ==
    AllDone =>
        \A s \in Servers : \A i \in 1..Len(sent[s]) : Delivered(sent[s][i])


\* ------------------------------------------------- end-to-end specification
MaxFlowInit == 1
MaxFlowSend == 2

\* the accounts of the test flow: 0*D issues the pass code, the initiate
\* endpoint acts for 1000001*D, the send-message requests name 1*D as sender
Accounts == {Address(<<"0">>, openmsgDomain(s)) : s \in Servers}
TestSender == Address(<<"1">>, openmsgDomain("a"))

\* one request at a time and no failing HTTP call: a pass code is issued,
\* a handshake initiated on a, then messages are sent from a
NextFlow ==
    \/ \E s \in Servers : RequestPassCode(s, Address(<<"0">>, openmsgDomain(s)), Code1)
    \/ /\ AllDone
       /\ Cardinality(InitiateTasks) < MaxFlowInit
       /\ \E other \in Accounts : PostInitiateHandshake("a", other, Code1)
    \/ /\ AllDone
       /\ Cardinality(SendTasks) < MaxFlowSend
       /\ \E text \in Texts : \E sending \in {Initiator, TestSender} :
          \E receiving \in Accounts :
             PostSendMessage("a", text, sending, receiving)
    \/ Tick(2)
    \/ Handlers
    \/ MsgHandlers

SpecFlow == Init /\ [][NextFlow]_vars


\* initiateHandshake call h returned Success
HandshakeSucceeded(h) ==
    h \in InitiateTasks /\ IsDone(h) /\ tasks[h].res = Result(Success)

\* send call t began after the successful handshake h with the same receiver
\* and has returned
SentAfter(h, t) ==
    /\ HandshakeSucceeded(h)
    /\ t \in SendTasks
    /\ h \in tasks[t].before
    /\ tasks[t].a.other = tasks[h].a.other
    /\ IsDone(t)

\* the receiver's Inbox holds the text of send call t under its hash
InboxHolds(t) ==
    LET a == tasks[t].a
        h == Route(SplitStar(a.other)[2])
    IN  \E j \in 1..Len(inbox[h]) :
            /\ inbox[h][j].self = a.other
            /\ inbox[h][j].message_hash = tasks[t].l.hash
            /\ inbox[h][j].message_text = a.text

\* C18: when a pass code was issued for B, A's handshake with B returned
\* Success and A then sent m to B, with no HTTP call failing and inside the
\* time windows, the run ends with mirrored Connections, m in B's Inbox, a
\* SentEntry in A's Sent and no OutboxEntry for the message in A's Outbox.
C18_EndToEnd ==
    \A h \in InitiateTasks : \A t \in SendTasks :
        (AllDone /\ SentAfter(h, t) /\ tasks[t].a.self = tasks[h].a.self) =>
            /\ Mirrored(h)
            /\ "hash" \in DOMAIN tasks[t].l
            /\ InboxHolds(t)
            /\ SentOf(t) # <<>>
            /\ OutboxOf(t) = <<>>

\* C19: after the setup initiate-handshake toward 0*D returned Success, every
\* send-message with sender 1*D and receiver 0*D returns success with SM_S888.
C19_TestFlowSends ==
    \A h \in InitiateTasks : \A t \in SendTasks :
        (/\ SentAfter(h, t)
         /\ tasks[t].a.self = TestSender
         /\ SplitStar(tasks[t].a.other)[2] = SplitStar(TestSender)[2]) =>
            /\ IsSuccess(tasks[t].res)
            /\ tasks[t].res.response_code = "SM_S888"


\* ------------------------------------------------------ expiry specification
\* clock advances that take a pass code to the ages 3599 and 3601
ExpirySteps == {oneHour - 1, 2}

\* the two stored pass codes of 0*b, presented to /auth one request at a
\* time while the clock advances
NextExpiry ==
    \/ \E d \in ExpirySteps : Tick(d)
    \/ MayRequest /\ \E c \in {Code1, Code2} :
          PostInitiateHandshake("a", Responder, c)
    \/ MayRequest /\ \E c \in {Code1, Code2} :
          PostAuth("b", <<"0">>, c, Initiator, setupSelfName)
    \/ Handlers

SpecExpiry == InitRekey /\ [][NextExpiry]_vars

\* auth call t read a pass code row and compared its age with the lifetime
CheckedPassCode(t) == t \in AuthTasks /\ "at" \in DOMAIN tasks[t].l
PassCodeAge(t) == tasks[t].l.at - tasks[t].l.passCodeTimestamp
RejectedExpired(t) ==
    IsDone(t) /\ tasks[t].res = Err(<<"expired pass code, over 1 hour old">>)
\* the pass code row that auth call t read is in the store
RowKept(t) ==
    \E i \in 1..Len(passCodes[tasks[t].srv]) :
        passCodes[tasks[t].srv][i] =
            [self |-> OwnerOf(t), code |-> tasks[t].a.passCode,
             ts |-> tasks[t].l.passCodeTimestamp]
\* another auth call for the same pass code passed the lifetime test
ConsumedByOther(t) ==
    \E u \in AuthTasks \ {t} :
        SamePair(t, u) /\ CheckedPassCode(u) /\ ~RejectedExpired(u)

\* C20: a pass code presented 3599 seconds after it was issued passes the
\* lifetime test (the call goes on to consume it); presented 3601 seconds
\* after, the call returns the expired error, and the row it read is still
\* in the store (unless another call, which passed the test, consumed it).
C20_ExpiryBoundary ==
    \A t \in AuthTasks :
        CheckedPassCode(t) =>
            /\ PassCodeAge(t) = oneHour - 1 =>
                  (tasks[t].pc = "delete_passCode" \/ PastConsumption(t))
            /\ PassCodeAge(t) = oneHour + 1 =>
                  (RejectedExpired(t) /\ (RowKept(t) \/ ConsumedByOther(t)))

C20_Witness ==
    /\ \E t \in AuthTasks :
          CheckedPassCode(t) /\ PassCodeAge(t) = oneHour - 1 /\ PastConsumption(t)
    /\ \E t \in AuthTasks :
          CheckedPassCode(t) /\ PassCodeAge(t) = oneHour + 1 /\ RejectedExpired(t)


\* ---------------------------------------------- handshake record specification
MaxRecords == 2
MaxConfirm == 2

DirectConfirms == {k \in ConfirmTasks : tasks[k].parent = 0}

\* one request at a time: handshakes are initiated on a with the pass code
\* that 0*b issued or with one it did not issue, auth/confirm is called on a
\* directly, and the clock advances
NextRecord ==
    \/ RequestPassCode("b", Responder, Code1)
    \/ /\ AllDone
       /\ Cardinality(InitiateTasks) < MaxRecords
       /\ \E c \in {Code1, Code2} :
            /\ \A t \in InitiateTasks : tasks[t].a.passCode # c
            /\ PostInitiateHandshake("a", Responder, c)
    \/ /\ AllDone
       /\ Cardinality(DirectConfirms) < MaxConfirm
       /\ \E c \in {Code1, Code2} : PostAuthConfirm("a", Responder, c)
    \/ \E d \in TickSteps : Tick(d)
    \/ Handlers

SpecRecord == Init /\ [][NextRecord]_vars

\* auth/confirm call k found a HandshakeRecord and compared its age with the
\* lifetime
CheckedRecord(k) == k \in ConfirmTasks /\ "found" \in DOMAIN tasks[k].l
RecordAge(k) == tasks[k].l.at - tasks[k].l.found.ts
ConfirmExpired(k) ==
    IsDone(k) /\ tasks[k].res = Err(<<"expired handshake, over 60 seconds old">>)
ConfirmNotFound(k) ==
    /\ IsDone(k)
    /\ tasks[k].res = Err(<<"unknown pending authorization with ">>
                          \o tasks[k].a.other \o <<", ">> \o tasks[k].a.passCode)
\* the rows that the auth/confirm calls on server s deleted
DeletedBy(S) ==
    Cardinality({k \in S : "deleted" \in DOMAIN tasks[k].l /\ tasks[k].l.deleted = 1})
InsertedOn(s) == Cardinality({e \in initiated : e.srv = s})

\* C21: an auth/confirm call that finds a HandshakeRecord 59 seconds old goes
\* on to delete it and return success, one that finds it 61 seconds old
\* returns the expired error, one that finds none returns the not-found
\* error; the records in the store are those inserted minus one for each
\* call that returned success.
C21_RecordLifetime ==
    /\ \A k \in ConfirmTasks :
          /\ (CheckedRecord(k) /\ RecordAge(k) = handshakeExpiry - 1) =>
                (tasks[k].pc = "delete_handshake" \/ Succeeded(k))
          /\ (CheckedRecord(k) /\ RecordAge(k) = handshakeExpiry + 1) =>
                ConfirmExpired(k)
          /\ (IsDone(k) /\ ~CheckedRecord(k)) => ConfirmNotFound(k)
          /\ ("deleted" \in DOMAIN tasks[k].l) => Succeeded(k)
    /\ \A s \in Servers :
          Len(handshakes[s]) =
              InsertedOn(s) - DeletedBy({k \in ConfirmTasks : tasks[k].srv = s})

C21_Witness ==
    /\ \E k \in ConfirmTasks :
          CheckedRecord(k) /\ RecordAge(k) = handshakeExpiry - 1 /\ Succeeded(k)
    /\ \E k \in ConfirmTasks :
          CheckedRecord(k) /\ RecordAge(k) = handshakeExpiry + 1 /\ ConfirmExpired(k)
    /\ \E k \in ConfirmTasks : ConfirmNotFound(k)


\* the receive call m got a successful answer from message/confirm
Confirmed(m) ==
    /\ m \in ReceiveTasks
    /\ CalledBack(m)
    /\ IsDone(tasks[m].l.child)
    /\ messageConfirmed(tasks[tasks[m].l.child].res)
\* the package of receive call m was made under the key of the Connection
\* that m found
SameKey(m) == tasks[m].a.message_package.key = FoundConnection(m).message_crypt_key
\* m wrote an InboxEntry holding the plaintext of its package
StoredPlaintext(m) ==
    \E i \in 1..Len(inbox[tasks[m].srv]) :
        /\ inbox[tasks[m].srv][i].by = m
        /\ inbox[tasks[m].srv][i].message_text = tasks[m].a.message_package.text

\* C22: a receive call whose package was encrypted under the Connection's
\* message_key and which passed the hash, freshness and confirm steps returns
\* SM_S888 and stores the decrypted plaintext, whatever the plaintext is
\* (the empty string included).
C22_RoundTrip ==
    \A m \in ReceiveTasks :
        (IsDone(m) /\ Confirmed(m) /\ SameKey(m)) =>
            (tasks[m].res = MsgOk("SM_S888") /\ StoredPlaintext(m))


\* ------------------------------------------------------- fault specification
MaxFaultInit == 1
MaxFaultSend == 1

\* one request at a time: a pass code, a handshake and a message, where any
\* statement that reaches the store and any HTTP call may fail
NextFault ==
    \/ RequestPassCode("b", Responder, Code1)
    \/ /\ AllDone
       /\ Cardinality(InitiateTasks) < MaxFaultInit
       /\ PostInitiateHandshake("a", Responder, Code1)
    \/ /\ AllDone
       /\ Cardinality(SendTasks) < MaxFaultSend
       /\ \E text \in Texts : PostSendMessage("a", text, Initiator, Responder)
    \/ Handlers
    \/ MsgHandlers
    \/ \E t \in 1..Len(tasks) : \E e \in StoreFaults : StoreFailed(t, e)
    \/ \E t \in 1..Len(tasks) :
          \/ initiateHandshake_AuthFailed(t)
          \/ authCheck_ConfirmFailed(t)
          \/ sendMessage_ReceiveFailed(t)
          \/ messageCheck_ConfirmFailed(t)

SpecFault == Init /\ [][NextFault]_vars

\* the shapes of the values the operations return
Structured(r) ==
    \/ DOMAIN r = {"result"}
    \/ IsError(r) /\ r.error = TRUE /\ "error_message" \in DOMAIN r
    \/ IsSuccess(r) /\ r.success = TRUE
Failure(r) == IF "result" \in DOMAIN r THEN r.result # Success ELSE IsError(r)
MessageOf(r) == IF "result" \in DOMAIN r THEN r.result ELSE r.error_message
GenericTexts == {<<"Database error">>, <<"Database error during confirmation">>}
\* a statement of call t threw
Faulted(t) == "fault" \in DOMAIN tasks[t].l

\* C23: every call that has returned returned a structured result, and a call
\* one of whose store statements failed returned a failure whose message is
\* the fixed generic text, whatever the store reported.
C23_StructuredErrors ==
    \A t \in 1..Len(tasks) :
        IsDone(t) =>
            /\ Structured(tasks[t].res)
            /\ Faulted(t) =>
                  (Failure(tasks[t].res) /\ MessageOf(tasks[t].res) \in GenericTexts)

C23_Witness ==
    \E t \in ReceiveTasks :
        /\ IsDone(t) /\ Faulted(t)
        /\ tasks[t].parent # 0
        /\ IsDone(tasks[t].parent) /\ IsError(tasks[tasks[t].parent].res)


\* the cross-server requests that call t issued
Requests(t) == {u \in 1..Len(tasks) : tasks[u].parent = t}
\* the request u got no answer in time or was answered with an error
RequestFailed(t, u) == ~IsDone(u) \/ IsError(tasks[u].res)

\* C24: a call issues at most one cross-server request, and when it has
\* returned and that request had failed (no answer when it returned, or an
\* answer carrying the error flag) it returned a failure.
C24_NoRetry ==
    \A t \in 1..Len(tasks) :
        /\ Cardinality(Requests(t)) <= 1
        /\ \A u \in Requests(t) :
              (IsDone(t) /\ RequestFailed(t, u)) => Failure(tasks[t].res)

C24_Witness ==
    /\ \E t \in AuthTasks : \E u \in Requests(t) :
          IsDone(t) /\ IsDone(u) /\ IsError(tasks[u].res) /\ Failure(tasks[t].res)
    /\ \E t \in InitiateTasks : \E u \in Requests(t) :
          IsDone(t) /\ tasks[t].res = Result(RequestError)


\* the store of the server of send call t holds no Connection for the
\* sender and recipient that t names
NoConnection(t) ==
    \A i \in 1..Len(connections[tasks[t].srv]) :
        ~(/\ connections[tasks[t].srv][i].self = tasks[t].a.self
          /\ connections[tasks[t].srv][i].other = tasks[t].a.other)

\* send call t runs its Connection lookup in this step
LooksUp(t) ==
    /\ At(t, "sendMessage", "select_connection")
    /\ tasks'[t] # tasks[t]

\* C25: when sendMessage looks the Connection up and there is none for
\* (self_address, recipient_address), it returns SM_E001, and the step
\* inserts no OutboxEntry and sends no request.
C25_NoConnection ==
    [][\A t \in 1..Len(tasks) :
          (LooksUp(t) /\ NoConnection(t)) =>
              /\ tasks'[t].pc = "done"
              /\ IsError(tasks'[t].res)
              /\ tasks'[t].res.response_code = "SM_E001"
              /\ outbox' = outbox
              /\ wire' = wire
              /\ Len(tasks') = Len(tasks)]_vars

C25_Witness ==
    \E t \in SendTasks :
        /\ IsDone(t)
        /\ NoConnection(t)
        /\ tasks[t].res.response_code = "SM_E001"
        /\ Requests(t) = {}
        /\ outbox[tasks[t].srv] = <<>>


\* ------------------------------------------------------- input specification
MaxInput == 2

\* other_openmsg_address values: a good one, one no server answers for, and
\* ones that are empty, have no or two separators, a non-numeric or empty
\* id, a character outside the domain grammar or an empty domain
OtherInputs ==
    {Responder, <<"0", "*", "c">>, <<>>, <<"0", "b">>,
     <<"0", "*", "b", "*", "b">>, <<"x", "*", "b">>, <<"*", "b">>,
     <<"0", "*", "_">>, <<"0", "*">>}
\* pass_code values: a good one, the empty one and a non-numeric one
CodeInputs == {Code1, <<>>, <<"4", "x">>}

\* one request at a time: initiate-handshake with any of these inputs
NextInput ==
    \/ RequestPassCode("b", Responder, Code1)
    \/ /\ AllDone
       /\ Cardinality(InitiateTasks) < MaxInput
       /\ \E other \in OtherInputs : \E code \in CodeInputs :
             PostInitiateHandshake("a", other, code)
    \/ Handlers

SpecInput == Init /\ [][NextInput]_vars

\* the preconditions of initiate, stated on the characters of the arguments
Stars(s) == {i \in 1..Len(s) : s[i] = "*"}
AllIn(s, chars) == s # <<>> /\ \A i \in 1..Len(s) : s[i] \in chars
Violates(a) ==
    \/ a.other = <<>> \/ a.passCode = <<>> \/ a.self = <<>> \/ a.selfName = ""
    \/ ~AllIn(a.passCode, Digits)
    \/ Cardinality(Stars(a.other)) # 1
    \/ LET k == CHOOSE i \in Stars(a.other) : TRUE
       IN  \/ ~AllIn(SubSeq(a.other, 1, k - 1), Digits)
           \/ ~AllIn(SubSeq(a.other, k + 1, Len(a.other)), DomainChars)

\* this step is the arrival of an initiate-handshake request
Arrives(t) ==
    /\ t = Len(tasks) + 1
    /\ Len(tasks') = t
    /\ tasks'[t].kind = "initiateHandshake"

\* C26: an initiate call whose arguments violate a precondition returns a
\* failure reason at once; it inserts no HandshakeRecord, sends no Auth
\* request and leaves the Connection store as it was.
C26_RejectsBeforeEffect ==
    [][\A t \in {Len(tasks) + 1} :
          (Arrives(t) /\ Violates(tasks'[t].a)) =>
              /\ tasks'[t].pc = "done"
              /\ Failure(tasks'[t].res)
              /\ handshakes' = handshakes
              /\ connections' = connections
              /\ initiated' = initiated]_vars

C26_Witness ==
    /\ \E t \in InitiateTasks :
          /\ ~AllIn(tasks[t].a.passCode, Digits)
          /\ IsDone(t) /\ Failure(tasks[t].res) /\ Requests(t) = {}
    /\ \E t \in InitiateTasks :
          /\ tasks[t].a.other = <<"0", "*", "_">> /\ tasks[t].a.passCode = Code1
          /\ IsDone(t) /\ Failure(tasks[t].res) /\ Requests(t) = {}
    /\ handshakes = EmptyStore


\* C27: no Inbox holds two InboxEntries of the same message, that is with
\* the same message_hash (which covers the package and with it the nonce).
C27_InboxOnce ==
    \A s \in Servers : \A i \in 1..Len(inbox[s]) : \A j \in 1..Len(inbox[s]) :
        inbox[s][i].message_hash = inbox[s][j].message_hash => i = j


\* the Connection that a lookup by (self, other) on server s uses
ConnectionOf(s, self, other) == selectConnections(connections[s], self, other)

\* C28: once two handshakes of 1000001*a with 0*b that ran concurrently have
\* both returned Success and nothing is in progress, the Connection on the
\* initiator's server and the Connection on the responder's server for the
\* pair hold the same auth_code, ident_code and message_key.
C28_ConcurrentMirrored ==
    (/\ AllDone
     /\ Cardinality({h \in InitiateTasks : HandshakeSucceeded(h)}) = 2) =>
        LET mine == ConnectionOf("a", Initiator, Responder)
            theirs == ConnectionOf("b", Responder, Initiator)
        IN  /\ mine # <<>>
            /\ theirs # <<>>
            /\ SameSecrets(mine[1], theirs[1])


\* ------------------------------------------------- re-handshake with failures
MaxRetry == 1

\* 1000001*a and 0*b are connected; 0*b issues a pass code and a new
\* handshake for the pair is initiated on a, where any statement that reaches
\* the store and any HTTP call may fail
NextRetry ==
    \/ RequestPassCode("b", Responder, Code1)
    \/ /\ AllDone
       /\ Cardinality(InitiateTasks) < MaxRetry
       /\ PostInitiateHandshake("a", Responder, Code1)
    \/ Handlers
    \/ \E t \in 1..Len(tasks) : \E e \in StoreFaults : StoreFailed(t, e)
    \/ \E t \in 1..Len(tasks) :
          \/ initiateHandshake_AuthFailed(t)
          \/ authCheck_ConfirmFailed(t)

SpecRetry == InitMsg /\ [][NextRetry]_vars

\* C29: once a new handshake for an already connected pair has returned a
\* failure and nothing is in progress, both servers hold the Connection rows
\* they held before, with the prior secrets.
C29_PriorConnectionKept ==
    \A h \in InitiateTasks :
        (AllDone /\ ~HandshakeSucceeded(h)) => connections = Established


\* k is the message/confirm callback of the receive call that a send call's
\* own request started
Genuine(k) ==
    /\ k \in ConfirmMsgTasks
    /\ tasks[k].parent \in ReceiveTasks
    /\ tasks[tasks[k].parent].parent \in SendTasks
\* another operation had removed the OutboxEntry of k's message when k
\* returned
RemovedBefore(k) ==
    \E d \in tasks[k].after \ {k} :
        Promoted(d, tasks[k].a.message_hash, tasks[k].a.message_nonce)

MaxStale == 2

\* one request at a time: 0*b issues a pass code, handshakes with that code
\* are initiated on a before and after it was issued, and the clock advances
NextStale ==
    \/ RequestPassCode("b", Responder, Code1)
    \/ /\ AllDone
       /\ Cardinality(InitiateTasks) < MaxStale
       /\ PostInitiateHandshake("a", Responder, Code1)
    \/ \E d \in TickSteps : Tick(d)
    \/ Handlers

SpecStale == Init /\ [][NextStale]_vars

\* the HandshakeRecords of server s that the auth/confirm call k matches
MatchingRecords(k) ==
    selectHandshakes(handshakes[tasks[k].srv], tasks[k].a.other, tasks[k].a.passCode)

\* C31: an auth/confirm call returns the expired error only when every
\* HandshakeRecord stored for its (other_address, pass_code) is older than 60
\* seconds; with at least one record of at most 60 seconds it goes on to
\* success.
C31_FreshRecordWins ==
    [][\A k \in ConfirmTasks :
          (~IsDone(k) /\ ConfirmExpired(k)') =>
              \A i \in 1..Len(MatchingRecords(k)) :
                  handshakeExpired(MatchingRecords(k)[i].ts, now)]_vars


\* ---------------------------------------------- repeated code specification
MaxTwice == 2

\* request-pass-code has drawn the same code twice for 0*b: two rows are
\* stored for (0*b, 481516)
InitTwice ==
    /\ now = StartTime
    /\ ticks = 0
    /\ variant \in Variants
    /\ rnd = 0
    /\ issued = {[self |-> Responder, code |-> Code1, n |-> n] : n \in {1, 2}}
    /\ initiated = {}
    /\ passCodes = [s \in Servers |->
           IF s = "b" THEN <<[self |-> Responder, code |-> Code1, ts |-> StartTime],
                             [self |-> Responder, code |-> Code1, ts |-> StartTime]>>
           ELSE <<>>]
    /\ handshakes = EmptyStore
    /\ connections = EmptyStore
    /\ outbox = EmptyStore
    /\ sent = EmptyStore
    /\ inbox = EmptyStore
    /\ tasks = <<>>
    /\ wire = {}

\* one request at a time: handshakes with that code are initiated on a, auth
\* is called on b directly, and the clock advances
NextTwice ==
    \/ /\ AllDone
       /\ Cardinality(Roots) < MaxTwice
       /\ PostInitiateHandshake("a", Responder, Code1)
    \/ /\ AllDone
       /\ Cardinality(Roots) < MaxTwice
       /\ PostAuth("b", <<"0">>, Code1, Initiator, setupSelfName)
    \/ \E d \in TickSteps : Tick(d)
    \/ Handlers

SpecTwice == InitTwice /\ [][NextTwice]_vars

\* C32: an auth call that presents (owner_address, code) after a successful
\* auth call for the same pair has returned fails, however many times the
\* code was issued to the owner.
C32_SecondPresentationFails ==
    \A t \in AuthTasks : \A u \in AuthTasks :
        (/\ t # u /\ SamePair(t, u)
         /\ Succeeded(t) /\ t \in tasks[u].before
         /\ IsDone(u))
        => IsError(tasks[u].res)


\* the steps of authCheck that write to openmsg_user_connections
ConnectionSteps == {"delete_connection", "insert_connection"}

\* C33: an auth call leaves its wait for the auth/confirm callback either
\* with the callback's success, or by returning an error without generating
\* secrets; no step of an auth call other than the two that follow a
\* successful callback changes a Connection store, and a call that returned
\* an error inserted no Connection row.
C33_CallbackFailureWritesNothing ==
    /\ [](\A t \in AuthTasks :
             (IsDone(t) /\ IsError(tasks[t].res)) =>
                 \A s \in Servers : \A i \in 1..Len(connections[s]) :
                     connections[s][i].by # t)
    /\ [][\A t \in AuthTasks :
            /\ (tasks[t].pc = "await_confirm" /\ tasks'[t].pc # "await_confirm") =>
                  \/ /\ IsDone(tasks[t].l.child)
                     /\ tasks[tasks[t].l.child].res = [success |-> TRUE]
                     /\ tasks'[t].pc = "delete_connection"
                  \/ /\ tasks'[t].pc = "done"
                     /\ IsError(tasks'[t].res)
                     /\ rnd' = rnd
            /\ (tasks'[t].pc # tasks[t].pc /\ tasks[t].pc \notin ConnectionSteps) =>
                  connections' = connections]_vars

\* an auth call whose callback answered with the error flag has returned
C33_Witness ==
    \E t \in AuthTasks :
        /\ IsDone(t) /\ PastConsumption(t)
        /\ IsDone(tasks[t].l.child) /\ IsError(tasks[tasks[t].l.child].res)
        /\ tasks[t].res = Err(<<"Error: ">> \o tasks[tasks[t].l.child].res.error_message)
        /\ connections = Established


\* -------------------------------------------------- auth input specification
MaxAuthInput == 2

\* the body of a well-formed auth request for the pass code of 0*b
GoodAuth ==
    [selfId |-> <<"0">>, code |-> Code1, other |-> Initiator, name |-> setupSelfName]

\* sending_openmsg_address values: ones that are empty, have no or two
\* separators, a non-numeric id, an empty domain, a character outside the
\* domain grammar, or a port after the domain
AuthOthers ==
    {<<>>, <<"1", "a">>, <<"1", "*", "a", "*", "a">>, <<"x", "*", "a">>,
     <<"1", "*">>, <<"1", "*", "_">>, Address(setupSelfId, <<"a">> \o HttpsPort)}

\* auth requests: the well-formed one and ones that differ from it in one
\* field (a blank field, an id without account, a code that was not issued,
\* a malformed sending_openmsg_address)
AuthInputs ==
    {GoodAuth}
    \cup {[GoodAuth EXCEPT !.selfId = i] : i \in {<<>>, <<"7">>}}
    \cup {[GoodAuth EXCEPT !.code = c] : c \in {<<>>, Code2}}
    \cup {[GoodAuth EXCEPT !.name = ""]}
    \cup {[GoodAuth EXCEPT !.other = o] : o \in AuthOthers}

\* one request at a time: 0*b issues a pass code, auth is called on b with
\* any of these inputs, handshakes are initiated on a, and the callback of an
\* auth call may fail in transport
NextAuthInput ==
    \/ RequestPassCode("b", Responder, Code1)
    \/ /\ AllDone
       /\ Cardinality(Roots) < MaxAuthInput
       /\ \E i \in AuthInputs : PostAuth("b", i.selfId, i.code, i.other, i.name)
    \/ /\ AllDone
       /\ Cardinality(Roots) < MaxAuthInput
       /\ PostInitiateHandshake("a", Responder, Code1)
    \/ Handlers
    \/ \E t \in 1..Len(tasks) : authCheck_ConfirmFailed(t)

SpecAuthInput == Init /\ [][NextAuthInput]_vars

\* the auth call t found an unexpired row and went through its DELETE
ConsumedCode(t) ==
    /\ t \in AuthTasks
    /\ CheckedPassCode(t) /\ ~RejectedExpired(t)
    /\ tasks[t].pc # "delete_passCode"

\* what authCheck returns when it rejects other_openmsg_address
AddressErrors ==
    {Err(<<"Invalid openmsg address format">>),
     Err(<<"other_openmsg_address_id should be numeric">>)}

\* the auth call t failed at address validation or at the callback
FailedAfterLookup(t) ==
    /\ IsDone(t) /\ IsError(tasks[t].res)
    /\ tasks[t].res \in AddressErrors \/ PastConsumption(t)

\* C34: an auth call rejects other_address or sends the callback only after
\* it has deleted the pass code row it found; with one row ever stored for
\* (owner_address, code) the row is gone from then on, and an auth call for
\* the pair that begins after such a call failed gets "pass code not valid".
C34_ConsumedBeforeCallback ==
    \A t \in AuthTasks :
        /\ (PastConsumption(t) \/ FailedAfterLookup(t)) => ConsumedCode(t)
        /\ (ConsumedCode(t) /\ IssuedCount(OwnerOf(t), tasks[t].a.passCode) = 1) =>
              selectPassCodes(passCodes[tasks[t].srv], OwnerOf(t),
                              tasks[t].a.passCode) = <<>>
        /\ \A u \in AuthTasks :
              (/\ FailedAfterLookup(t) /\ t \in tasks[u].before
               /\ SamePair(t, u) /\ IsDone(u)
               /\ tasks[u].a.other # <<>> /\ tasks[u].a.otherName # ""
               /\ IssuedCount(OwnerOf(t), tasks[t].a.passCode) = 1)
              => tasks[u].res = Err(<<"pass code not valid">>)

\* an auth call failed at address validation and the handshake initiated
\* afterwards with the same code was refused
C34_Witness ==
    \E t \in AuthTasks : \E u \in AuthTasks :
        /\ IsDone(t) /\ tasks[t].res \in AddressErrors /\ ConsumedCode(t)
        /\ t \in tasks[u].before /\ SamePair(t, u) /\ tasks[u].parent # 0
        /\ tasks[u].res = Err(<<"pass code not valid">>)

\* the errors authCheck returns before it reaches its DELETE
BlankError ==
    Err(<<"self_openmsg_address_id, pass_code, other_openmsg_address and other_openmsg_address_name cannot be blank">>)
EarlyErrors == {BlankError, Err(<<"User not found">>), Err(<<"pass code not valid">>)}

\* a required field of the auth request is blank
Blank(a) == a.selfId = <<>> \/ a.passCode = <<>> \/ a.other = <<>> \/ a.otherName = ""
\* no pass code row of server s is stored for (self, code)
NoPassCode(s, self, code) ==
    \A i \in 1..Len(passCodes[s]) :
        ~(passCodes[s][i].self = self /\ passCodes[s][i].code = code)

\* C35: an auth call with a blank required field returns the blank-field
\* error on arrival, one for an address without account returns "User not
\* found", one that finds no pass code row for its pair returns "pass code
\* not valid"; the step that returns one of these errors changes no
\* PassCode, HandshakeRecord or Connection row and sends no callback, and no
\* earlier step of the call did.
C35_EarlyFailureChangesNothing ==
    /\ [](\A t \in AuthTasks :
             /\ Blank(tasks[t].a) => (IsDone(t) /\ tasks[t].res = BlankError)
             /\ (IsDone(t) /\ ~Blank(tasks[t].a) /\ OwnerOf(t) \notin Users(tasks[t].srv))
                   => tasks[t].res = Err(<<"User not found">>)
             /\ (IsDone(t) /\ tasks[t].res \in EarlyErrors) =>
                   /\ Requests(t) = {}
                   /\ ~CheckedPassCode(t)
                   /\ \A s \in Servers : \A i \in 1..Len(connections[s]) :
                          connections[s][i].by # t)
    /\ [][\A t \in 1..Len(tasks') :
            (/\ tasks'[t].kind = "authCheck"
             /\ tasks'[t].pc = "done" /\ tasks'[t].res \in EarlyErrors
             /\ (t \in 1..Len(tasks) => tasks[t].pc # "done"))
            => /\ passCodes' = passCodes
               /\ handshakes' = handshakes
               /\ connections' = connections
               /\ Len(tasks') = IF t \in 1..Len(tasks) THEN Len(tasks) ELSE t]_vars
    /\ [][\A t \in AuthTasks :
            (/\ tasks[t].pc = "select_passCode" /\ tasks'[t].pc # "select_passCode"
             /\ NoPassCode(tasks[t].srv, OwnerOf(t), tasks[t].a.passCode))
            => (tasks'[t].pc = "done" /\ tasks'[t].res = Err(<<"pass code not valid">>))]_vars

\* all three early failures have happened while a pass code of the owner was
\* stored, and it still is
C35_Witness ==
    /\ \E t \in AuthTasks : tasks[t].res = Err(<<"User not found">>)
    /\ \E t \in AuthTasks :
          /\ tasks[t].res = Err(<<"pass code not valid">>)
          /\ tasks[t].a.passCode = Code2
    /\ passCodes["b"] # <<>>

\* other_address does not follow the Address grammar: exactly one separator,
\* a numeric id, a domain of [A-Za-z0-9.-]+
Malformed(other) ==
    \/ Cardinality(Stars(other)) # 1
    \/ LET k == CHOOSE i \in Stars(other) : TRUE
       IN  \/ ~AllIn(SubSeq(other, 1, k - 1), Digits)
           \/ ~AllIn(SubSeq(other, k + 1, Len(other)), DomainChars)

\* C36: an auth call whose other_address does not follow the Address grammar
\* sends no auth/confirm request and returns an error.
C36_ValidatesOtherAddress ==
    \A t \in AuthTasks :
        Malformed(tasks[t].a.other) =>
            /\ Requests(t) = {}
            /\ IsDone(t) => IsError(tasks[t].res)


\* ------------------------------------------------------- peer specification
MaxPeer == 1

\* 1000001*a and 0*b are connected; 0*b issues a pass code and a new
\* handshake for the pair is initiated on a, whose auth request is answered
\* by b or by a server that runs another implementation
NextPeer ==
    \/ RequestPassCode("b", Responder, Code1)
    \/ /\ AllDone
       /\ Cardinality(InitiateTasks) < MaxPeer
       /\ PostInitiateHandshake("a", Responder, Code1)
    \/ Handlers
    \/ \E t \in 1..Len(tasks) : \E r \in PeerAnswers :
          initiateHandshake_PeerResponse(t, r)

SpecPeer == InitMsg /\ [][NextPeer]_vars

\* the initiate call t received an auth response that reports success
Answered(t) ==
    /\ t \in InitiateTasks /\ "answer" \in DOMAIN tasks[t].l
    /\ IsSuccess(tasks[t].l.answer) /\ ~IsError(tasks[t].l.answer)
\* one of the four required values of the response r is empty
Incomplete(r) ==
    "" \in {r.auth_code, r.ident_code, r.message_crypt_key,
            r.receiving_openmsg_address_name}

\* C37: an initiate call that receives an auth response reporting success
\* with one of auth_code, ident_code, message_crypt_key and the display name
\* empty returns a failure in the step that receives it; that step changes
\* no store, and the call has inserted no Connection row.
C37_IncompleteResponseWritesNothing ==
    /\ [](\A t \in InitiateTasks :
             (Answered(t) /\ Incomplete(tasks[t].l.answer)) =>
                 /\ IsDone(t) /\ Failure(tasks[t].res)
                 /\ \A i \in 1..Len(connections[tasks[t].srv]) :
                        connections[tasks[t].srv][i].by # t)
    /\ [][\A t \in InitiateTasks :
            (/\ tasks[t].pc = "await_auth"
             /\ Answered(t)' /\ Incomplete(tasks'[t].l.answer))
            => /\ passCodes' = passCodes
               /\ handshakes' = handshakes
               /\ connections' = connections]_vars

\* such a response was received and the prior Connection rows are in place
C37_Witness ==
    \E t \in InitiateTasks :
        /\ Answered(t) /\ tasks[t].l.answer.ident_code = ""
        /\ tasks[t].res = Result(<<"Error: Missing required data in response">>)
        /\ connections["a"] = Established["a"]


\* send call t inserted its OutboxEntry and sent the message
Outboxed(t) == t \in SendTasks /\ "child" \in DOMAIN tasks[t].l

\* C38: when no operation is in progress, the message of every send call
\* that outboxed it is in exactly one of the sender's Outbox and Sent
\* ledgers.
C38_OneLedger ==
    AllDone =>
        \A t \in SendTasks :
            Outboxed(t) => ((SentOf(t) = <<>>) # (OutboxOf(t) = <<>>))


\* --------------------------------------------------------- hash specification
\* 10^n
RECURSIVE Pow10(_)
Pow10(n) == IF n = 0 THEN 1 ELSE 10 * Pow10(n - 1)
\* parseInt of a one-digit string
DigitValue(c) == CHOOSE d \in 0..9 : DigitChar(d) = c

\* what a party that saw a receive request on the wire can post with the
\* same package and hash: the request with another salt, with another
\* timestamp, or with the last digit of the salt moved to the front of the
\* timestamp
SpliceKinds == {"salt", "timestamp", "shift"}
Splice(req, kind) ==
    LET salt == req.message_salt
        ts == req.message_timestamp
    IN  CASE kind = "salt" ->
                [req EXCEPT !.message_salt = <<"guess", "7">>]
          [] kind = "timestamp" -> [req EXCEPT !.message_timestamp = ts + 1]
          [] kind = "shift" ->
                IF salt[Len(salt)] \in Digits \ {"0"}
                THEN [req EXCEPT
                         !.message_salt = SubSeq(salt, 1, Len(salt) - 1),
                         !.message_timestamp =
                             DigitValue(salt[Len(salt)]) * Pow10(Len(Dec(ts))) + ts]
                ELSE req

\* messages over an established Connection, and receive requests made from
\* them in these ways
NextHash ==
    \/ /\ Cardinality(SendTasks) < MaxSend
       /\ PostSendMessage("a", <<"h", "i">>, Initiator, Responder)
    \/ /\ Cardinality(DirectReceives) < MaxReceive
       /\ \E w \in wire : \E k \in SpliceKinds : PostReceive(w.to, Splice(w.req, k))
    \/ \E d \in TickSteps : Tick(d)
    \/ MsgHandlers

SpecHash == InitMsg /\ [][NextHash]_vars

\* the salt and the timestamp of receive call m are those of a request that
\* a send call made for the same package
SenderHashed(m) ==
    \E w \in wire :
        /\ w.req.message_package = tasks[m].a.message_package
        /\ w.req.message_salt = tasks[m].a.message_salt
        /\ w.req.message_timestamp = tasks[m].a.message_timestamp

\* C39: a receive call whose salt or timestamp is not the one the sender
\* hashed for the package returns SM_E004 and never reaches the freshness
\* check and the confirm callback.
C39_HashBindsFields ==
    \A m \in ReceiveTasks :
        (Looked(m) /\ ~SenderHashed(m)) =>
            /\ ~HashCorrect(m)
            /\ ~CalledBack(m)
            /\ IsDone(m) => ReturnedCode(m, "SM_E004")


\* --------------------------------------------------- liveness specification
MaxLiveInit == 1
MaxLiveSend == 1

\* a pass code is issued on either server, a handshake is initiated on a with
\* an account of a or of b and a message is sent from a to such an account;
\* the requests run concurrently and any HTTP call may time out
NextLive ==
    \/ \E s \in Servers : RequestPassCode(s, Address(<<"0">>, openmsgDomain(s)), Code1)
    \/ /\ Cardinality(InitiateTasks) < MaxLiveInit
       /\ \E other \in Accounts : PostInitiateHandshake("a", other, Code1)
    \/ /\ Cardinality(SendTasks) < MaxLiveSend
       /\ \E receiving \in Accounts :
             PostSendMessage("a", <<"h", "i">>, Initiator, receiving)
    \/ Handlers
    \/ MsgHandlers
    \/ \E t \in 1..Len(tasks) :
          \/ initiateHandshake_AuthFailed(t)
          \/ authCheck_ConfirmFailed(t)
          \/ sendMessage_ReceiveFailed(t)
          \/ messageCheck_ConfirmFailed(t)

\* the event loop runs every continuation that is ready and the store
\* answers every statement; no timeout is required to fire
SpecLive == Init /\ [][NextLive]_vars /\ WF_vars(Handlers \/ MsgHandlers)

\* each request starts at most two nested calls
MaxLiveTasks == 3 * (MaxLiveInit + MaxLiveSend)

\* C40: every invocation of initiate, auth, auth/confirm, send, receive and
\* message/confirm eventually returns, also when no timeout fires and when
\* both parties are accounts of the same server.
C40_EveryCallReturns ==
    \A i \in 1..MaxLiveTasks :
        (Len(tasks) >= i) ~> (Len(tasks) >= i /\ IsDone(i))

\* a handshake between two accounts of server a has succeeded: auth and
\* auth/confirm were served by a while its initiate call was waiting, and a
\* message between them was accepted
C40_Witness ==
    /\ AllDone
    /\ \E h \in InitiateTasks :
          /\ HandshakeSucceeded(h)
          /\ tasks[tasks[h].l.child].srv = tasks[h].srv
          /\ \E k \in ConfirmTasks :
                /\ tasks[k].parent = tasks[h].l.child
                /\ tasks[k].srv = tasks[h].srv
                /\ tasks[h].l.child \notin tasks[k].after
                /\ h \notin tasks[k].after
    /\ \E t \in SendTasks :
          /\ tasks[t].res = MsgOk("SM_S888")
          /\ tasks[tasks[t].l.child].srv = tasks[t].srv
====
